---- MODULE Spec2Model ----
(***************************************************************************)
(* Model of the crowbar-master backend: the payment-webhook reconciliation *)
(* (handleSuccessfulPayment), the credits endpoints, the gate flow, the    *)
(* bridge sync-checkout and the profile-completion bonus, over the three   *)
(* tables users, credits_ledger and credits.                               *)
(*                                                                         *)
(* Units: total_spent and amount_usd are kept in cents (the code divides   *)
(* amount_total by 100 and compares at cent precision); limited_paid_amount*)
(* and upgrade_balance_amount are whole dollars; a null number is 0 where  *)
(* the code reads it through `|| 0`, and NoAmount otherwise.               *)
(***************************************************************************)
EXTENDS Integers, Sequences, FiniteSets, TLC

VARIABLES
  users,     \* table users, keyed by the email string the caller wrote
  ledger,    \* table credits_ledger, in insertion order
  credits,   \* table credits, in insertion order
  referrals, \* table referrals, in insertion order
  stripe,    \* the gateway's checkout sessions created by startGate
  now,       \* the current UTC day
  last,      \* the request just answered and its response
  ops,       \* requests handled so far
  calls      \* requests in flight, each between two of its store calls

vars == <<users, ledger, credits, referrals, stripe, now, last, ops, calls>>

(* ------------------------------ bounds -------------------------------- *)

\* number of requests handled in one behaviour
MaxOps == 4

(* ----------------------------- constants ------------------------------ *)

TargetCredits == 49
UpgradeTarget == 49
ProfileBonus == 20
AutoUpgradeBonus == 49
AutoUpgradeThreshold == 9900
NoAmount == -1

NoEvent == <<>>
NoSession == "none"
NoEmail == <<>>
NoPartner == "none"
NoTier == "none"
NoCode == "none"

(* ------------------------------ emails -------------------------------- *)

EmailA == <<"a", "@", "x">>
EmailB == <<"b", "@", "x">>
Emails == {EmailA, EmailB}

\* the same address as a caller may type it
UpperA == <<"A", "@", "x">>

\* an address that never gets a users row
EmailC == <<"c", "@", "x">>

\* not an address
NoAtEmail == <<"b", "x">>

\* every key a users row can be stored under
UserKeys == Emails \cup {UpperA}

ToLowerChar(c) ==
  CASE c = "A" -> "a"
    [] c = "B" -> "b"
    [] c = "X" -> "x"
    [] OTHER -> c

RECURSIVE TrimStart(_)
TrimStart(s) == IF s # <<>> /\ Head(s) = " " THEN TrimStart(Tail(s)) ELSE s

RECURSIVE TrimEnd(_)
TrimEnd(s) ==
  IF s # <<>> /\ s[Len(s)] = " " THEN TrimEnd(SubSeq(s, 1, Len(s) - 1)) ELSE s

\* (e || '').trim().toLowerCase()
NormEmail(e) ==
  LET t == TrimEnd(TrimStart(e)) IN [i \in 1..Len(t) |-> ToLowerChar(t[i])]

(* ------------------------------ tables -------------------------------- *)

Partners == {"talentkonnect", "careduel", "ecoworldbuy"}
Codes == {"CWB-AAAAAA", "CWB-BBBBBB"}

\* a users row as the store creates it from upsert([{ email }])
NewUserRow ==
  [exists |-> TRUE, total_credits |-> 0, total_spent |-> 0,
   membership_tier |-> NoTier, access_mode |-> "none",
   limited_partner |-> {}, limited_paid_amount |-> 0,
   upgrade_balance_amount |-> NoAmount, access |-> {},
   crowbar_access |-> FALSE, full_access |-> FALSE,
   auto_upgraded_at |-> FALSE, profile_completed |-> FALSE,
   profile_fields |-> FALSE, kyc_fields |-> FALSE,
   referral_code |-> NoCode, referred_by |-> NoEmail]

NoUserRow == [NewUserRow EXCEPT !.exists = FALSE]

LedgerRow(email, delta, reason, origin, event, session, usd, day) ==
  [email |-> email, delta |-> delta, reason |-> reason, origin_site |-> origin,
   stripe_event_id |-> event, stripe_session_id |-> session, amount_usd |-> usd,
   created_at |-> day]

CreditsRow(email, amount, origin, event, session, legal) ==
  [email |-> email, amount |-> amount, origin_site |-> origin,
   stripe_event_id |-> event, stripe_session_id |-> session, legal_accept |-> legal]

Rows(tbl) == {tbl[i] : i \in 1..Len(tbl)}

RECURSIVE SumDelta(_)
SumDelta(tbl) == IF tbl = <<>> THEN 0 ELSE Head(tbl).delta + SumDelta(Tail(tbl))

RowsOfEmail(tbl, e) == SelectSeq(tbl, LAMBDA r : r.email = e)

Max(a, b) == IF a >= b THEN a ELSE b

\* the three tables a handler reads and writes
Tables(U, L, C) == [users |-> U, ledger |-> L, credits |-> C]

Commit(T) == users' = T.users /\ ledger' = T.ledger /\ credits' = T.credits

(* ------------------------- balance mutators --------------------------- *)

\* creates no row
ensureUser_Never(U, email) == U

\* upsert([{ email }], { onConflict: 'email' })
ensureUser(U, email) ==
  IF U[email].exists THEN U ELSE [U EXCEPT ![email] = NewUserRow]

bumpUserCredits(U, email, delta) ==
  LET U1 == ensureUser(U, email)
  IN [U1 EXCEPT ![email].total_credits = U1[email].total_credits + delta]

\* never writes the new total_spent
bumpUserSpend_Lost(U, email, cents) == ensureUser(U, email)

\* stripeController / bridge variant: total_spent only
bumpUserSpend(U, email, cents) ==
  LET U1 == ensureUser(U, email)
  IN [U1 EXCEPT ![email].total_spent = U1[email].total_spent + cents]

\* credits_ledger.insert under the unique index on stripe_event_id (error 23505)
LedgerDuplicate(L, row) ==
  /\ row.stripe_event_id # NoEvent
  /\ \E r \in Rows(L) : r.stripe_event_id = row.stripe_event_id

LedgerInsert(L, row) == IF LedgerDuplicate(L, row) THEN L ELSE Append(L, row)

(* --------------------------- referral code ---------------------------- *)

\* the codes ensureReferralCodeForUser can end with for this user
ReferralCodeChoices(U, email) ==
  IF ~ U[email].exists THEN {NoCode}
  ELSE IF U[email].referral_code # NoCode THEN {U[email].referral_code}
  ELSE {c \in Codes : \A e \in UserKeys : U[e].referral_code # c}

ensureReferralCodeForUser(U, email, code) ==
  IF U[email].exists /\ U[email].referral_code = NoCode /\ code # NoCode
  THEN [U EXCEPT ![email].referral_code = code]
  ELSE U

(* ----------------------------- sessions ------------------------------- *)

NoType == "none"

Session(id, user_email, customer_email, ptype, tier, partner, paid, cents, product, status) ==
  [id |-> id, user_email |-> user_email, customer_email |-> customer_email,
   payment_type |-> ptype, membership_tier |-> tier, partner_key |-> partner,
   limited_paid_amount |-> paid, amount_total |-> cents, product_type |-> product,
   payment_status |-> status, status |-> "complete", legal_accept |-> FALSE,
   origin |-> NoPartner, return_to |-> NoPartner]

Lifetime(id, raw, tier, cents) ==
  Session(id, raw, raw, "lifetime_purchase", tier, NoPartner, 0, cents, "crowbar_master", "paid")

LimitedPass(id, raw, partner, paid) ==
  Session(id, raw, raw, "limited_pass", NoTier, partner, paid, paid * 100, "crowbar_master", "paid")

BalanceUpgrade(id, raw, cents) ==
  Session(id, raw, raw, "balance_upgrade", NoTier, NoPartner, 0, cents, "crowbar_master", "paid")

\* falls back to a fixed account when the session names nobody
SessionEmail_Fallback(s) ==
  LET e == NormEmail(IF s.user_email # NoEmail THEN s.user_email ELSE s.customer_email)
  IN IF e = NoEmail THEN EmailA ELSE e

NullSession ==
  Session(NoSession, NoEmail, NoEmail, NoType, NoTier, NoPartner, 0, 0, "none", "none")

\* session.metadata.user_email || session.customer_email, normalised
SessionEmail(s) ==
  NormEmail(IF s.user_email # NoEmail THEN s.user_email ELSE s.customer_email)

\* session.metadata.payment_type || 'lifetime_purchase'
PaymentTypeOf(s) ==
  IF s.payment_type = NoType THEN "lifetime_purchase" ELSE s.payment_type

(* ----------------------------- responses ------------------------------ *)

Result(success, already, error) ==
  [success |-> success, alreadyProcessed |-> already, error |-> error]

\* what a request carried besides the email; updated: whether the store took
\* the last users update the request sent
NoReq ==
  [origin |-> NoPartner, legal_accept |-> "none", return_to |-> NoPartner, amount |-> 0,
   code |-> NoCode, signature |-> <<>>, session_id |-> NoSession, key |-> "none",
   cents |-> 0, unlock |-> FALSE, updated |-> TRUE]

\* res.status(...): 200 unless the handler says otherwise
HttpOk == 200

BadRequest == 400

NotFound == 404

ServerError == 500

Answer(op, email, res) ==
  [op |-> op, session |-> NullSession, event |-> NoEvent, email |-> email, result |-> res,
   arg |-> NoReq, http |-> IF res.success THEN HttpOk ELSE BadRequest,
   redirect_url |-> "none"]

NoResult == Result(FALSE, FALSE, "none")

Ok == Result(TRUE, FALSE, "none")

Fail(error) == Result(FALSE, FALSE, error)

(* ---------------------- handleSuccessfulPayment ----------------------- *)

KnownTiers == {"discount19", "basic", "pro", "elite"}

\* applies the pro tier's 1.5 multiplier to the grant
TierCredits_ProMultiplied(t) == IF t = "elite" THEN 500 ELSE IF t = "pro" THEN 73 ELSE 49

\* tierBenefits[t].credits
TierCredits(t) == IF t = "elite" THEN 500 ELSE 49

\* tierBenefits[tier] ? tier : 'basic'
SafeTier(t) == IF t \in KnownTiers THEN t ELSE "basic"

PassAmounts == {7, 9, 12}

AmountStr(n) ==
  CASE n = 7 -> "7" [] n = 9 -> "9" [] n = 12 -> "12" [] OTHER -> "?"

Outcome(U, L, C, res, referral) ==
  [users |-> U, ledger |-> L, credits |-> C, result |-> res, referral |-> referral]

\* a handler that forgot the stripe_event_id lookup
ExistingLedgerRecord_Never(L, ev) == FALSE

\* the idempotency gate: a ledger row carrying this stripe_event_id
ExistingLedgerRecord(L, ev) ==
  /\ ev # NoEvent
  /\ \E r \in Rows(L) : r.stripe_event_id = ev

\* overwrites the running total with this payment
NewTotalPaid_Overwrite(prevTotalPaid, paidAmount) == paidAmount

\* prevTotalPaid + paidAmount
NewTotalPaid(prevTotalPaid, paidAmount) == prevTotalPaid + paidAmount

LimitedPassFlow(U, L, C, s, ev, email, day) ==
  LET partnerKey == s.partner_key
      paidAmount == s.limited_paid_amount
  IN
  IF partnerKey = NoPartner
  THEN Outcome(U, L, C, Result(FALSE, FALSE, "Missing partner_key in metadata"), FALSE)
  ELSE IF paidAmount \notin PassAmounts
  THEN Outcome(U, L, C, Result(FALSE, FALSE, "Invalid limited_paid_amount"), FALSE)
  ELSE
    LET U1 == ensureUser(U, email)
        existing == U1[email]
        newTotalPaid == NewTotalPaid(existing.limited_paid_amount, paidAmount)
        upgradeBalance == Max(UpgradeTarget - newTotalPaid, 0)
        U2 == [U1 EXCEPT ![email] =
                 [existing EXCEPT
                    !.access_mode = "limited",
                    !.limited_partner = existing.limited_partner \cup {partnerKey},
                    !.limited_paid_amount = newTotalPaid,
                    !.upgrade_balance_amount = upgradeBalance,
                    !.crowbar_access = TRUE,
                    !.full_access = FALSE,
                    !.access = existing.access \cup ({partnerKey} \cap Partners)]]
        U3 == bumpUserSpend(U2, email, s.amount_total)
        L1 == LedgerInsert(L, LedgerRow(email, 0,
                 <<"payment.limited_pass", partnerKey, AmountStr(paidAmount)>>,
                 "stripe_payment", ev, s.id, s.amount_total, day))
        C1 == Append(C, CreditsRow(email, 0, "stripe_payment", ev, s.id, TRUE))
    IN Outcome(U3, L1, C1, Result(TRUE, FALSE, "none"), TRUE)

\* accepts any amount from a limited user
BalanceUpgradeCheck_AnyAmount(U, s, email) ==
  LET user == U[email]
  IN IF ~ user.exists \/ user.access_mode # "limited"
     THEN "Balance upgrade allowed only for limited users"
     ELSE IF UpgradeTarget - user.limited_paid_amount <= 0
     THEN "No balance remaining to upgrade"
     ELSE "ok"

\* the balance_upgrade validation: "ok" or the error it returns
BalanceUpgradeCheck(U, s, email) ==
  LET user == U[email]
      expectedBalance == UpgradeTarget - user.limited_paid_amount
  IN
  IF ~ user.exists \/ user.access_mode # "limited"
  THEN "Balance upgrade allowed only for limited users"
  ELSE IF expectedBalance <= 0 THEN "No balance remaining to upgrade"
  ELSE IF s.amount_total # expectedBalance * 100 THEN "Balance mismatch"
  ELSE "ok"

\* the additive grant the balance-upgrade fix replaced
BalanceUpgradeTotal_Additive(prevCredits) == prevCredits + TargetCredits

\* balance upgrade: grant only the missing credits
BalanceUpgradeDelta(prevCredits) == Max(TargetCredits - prevCredits, 0)

BalanceUpgradeTotal(prevCredits) == Max(prevCredits, TargetCredits)

\* unlocks the partners and leaves the row in limited mode
BalanceUpgradeFields_StillLimited(row) == [row EXCEPT !.access = Partners]

\* if (paymentType === 'balance_upgrade') { userUpdate.access_mode = 'lifetime'; ... }
BalanceUpgradeFields(row) ==
  [row EXCEPT
     !.access_mode = "lifetime",
     !.limited_partner = {},
     !.limited_paid_amount = 0,
     !.upgrade_balance_amount = NoAmount,
     !.access = Partners]

MembershipFlow(U, L, C, s, ev, email, paymentType, day) ==
  LET tier == IF paymentType = "balance_upgrade" THEN "basic"
              ELSE IF s.membership_tier = NoTier THEN "basic" ELSE s.membership_tier
      safeTier == SafeTier(tier)
      baseDelta == IF TierCredits(safeTier) <= 0 THEN 49 ELSE TierCredits(safeTier)
      prevCredits == IF U[email].exists THEN U[email].total_credits ELSE 0
      deltaCredits == IF paymentType = "balance_upgrade"
                      THEN BalanceUpgradeDelta(prevCredits) ELSE baseDelta
      newTotalCredits == IF paymentType = "balance_upgrade"
                         THEN BalanceUpgradeTotal(prevCredits)
                         ELSE prevCredits + baseDelta
      U1 == ensureUser(U, email)
      row1 == [U1[email] EXCEPT
                 !.membership_tier = safeTier,
                 !.total_credits = newTotalCredits,
                 !.crowbar_access = TRUE,
                 !.full_access = (tier \in {"pro", "elite"})]
      row2 == IF paymentType = "balance_upgrade" THEN BalanceUpgradeFields(row1) ELSE row1
      U2 == [U1 EXCEPT ![email] = row2]
      U3 == bumpUserSpend(U2, email, s.amount_total)
      C1 == Append(C, CreditsRow(email, deltaCredits, "stripe_payment", ev, s.id, TRUE))
      L1 == LedgerInsert(L, LedgerRow(email, deltaCredits, <<"membership_purchase", tier>>,
               "stripe_payment", ev, s.id, s.amount_total, day))
  IN Outcome(U3, L1, C1, Result(TRUE, FALSE, "none"), TRUE)

\* everything of handleSuccessfulPayment up to the referral-code step
PaymentOutcome(U, L, C, s, ev, day) ==
  LET email == SessionEmail(s)
      paymentType == PaymentTypeOf(s)
  IN
  IF email = NoEmail
  THEN Outcome(U, L, C, Result(FALSE, FALSE, "No email"), FALSE)
  ELSE IF ExistingLedgerRecord(L, ev)
  THEN Outcome(U, L, C, Result(TRUE, TRUE, "none"), FALSE)
  ELSE IF paymentType = "limited_pass"
  THEN LimitedPassFlow(U, L, C, s, ev, email, day)
  ELSE IF paymentType = "balance_upgrade" /\ BalanceUpgradeCheck(U, s, email) # "ok"
  THEN Outcome(U, L, C, Result(FALSE, FALSE, BalanceUpgradeCheck(U, s, email)), FALSE)
  ELSE MembershipFlow(U, L, C, s, ev, email, paymentType, day)

\* the writes of handleSuccessfulPayment, the referral-code step included
PaymentWrites(s, ev) ==
  LET out == PaymentOutcome(users, ledger, credits, s, ev, now)
      email == SessionEmail(s)
  IN /\ ledger' = out.ledger
     /\ credits' = out.credits
     /\ IF out.referral
        THEN \E code \in ReferralCodeChoices(out.users, email) :
               users' = ensureReferralCodeForUser(out.users, email, code)
        ELSE users' = out.users

handleSuccessfulPayment(s, ev) ==
  /\ ops < MaxOps
  /\ PaymentWrites(s, ev)
  /\ last' = [Answer("handleSuccessfulPayment", SessionEmail(s),
                     PaymentOutcome(users, ledger, credits, s, ev, now).result)
                EXCEPT !.session = s, !.event = ev, !.http = 0]
  /\ ops' = ops + 1
  /\ UNCHANGED <<referrals, stripe, now, calls>>

(* ----------------------------- handleWebhook --------------------------- *)

\* process.env.STRIPE_WEBHOOK_SECRET
WebhookSecret == "whsec_endpoint"

\* the stripe-signature header: a secret applied to the payload that was signed
Sign(secret, payload) == <<secret, payload>>

NoSignature == <<>>

\* lets every request through
VerifiedSignature_Any(payload, sig) == TRUE

\* stripe.webhooks.constructEvent(req.body, sig, secret) does not throw
VerifiedSignature(payload, sig) == sig = Sign(WebhookSecret, payload)

\* POST /webhook: verify, acknowledge, then processWebhookEvent
handleWebhook(event, sig) ==
  /\ ops < MaxOps
  /\ LET s == event.session
         Said(res) == [Answer("handleWebhook", SessionEmail(s), res)
                         EXCEPT !.session = s, !.event = event.id, !.arg.signature = sig]
     IN IF ~ VerifiedSignature(event.id, sig)
        THEN /\ last' = Said(Fail("Webhook Error"))
             /\ UNCHANGED <<users, ledger, credits>>
        ELSE IF event.type = "checkout.session.completed" /\ s.payment_status = "paid"
        THEN /\ PaymentWrites(s, event.id)
             /\ last' = [Said(PaymentOutcome(users, ledger, credits, s, event.id, now).result)
                          EXCEPT !.http = HttpOk]
        ELSE /\ last' = Said(Ok)
             /\ UNCHANGED <<users, ledger, credits>>
  /\ ops' = ops + 1
  /\ UNCHANGED <<referrals, stripe, now, calls>>

(* --------------------- the webhook's deliveries ----------------------- *)

RawA == <<" ", "A", "@", "X", " ">>

CsD19 == Lifetime("cs_d19", EmailA, "discount19", 1900)
CsBasic == Lifetime("cs_basic", RawA, "basic", 4900)
CsPro == Lifetime("cs_pro", EmailB, "pro", 9900)
CsElite == Lifetime("cs_elite", EmailA, "elite", 49900)
CsGold == Lifetime("cs_gold", EmailB, "gold", 4900)
CsNoTier == Session("cs_notier", NoEmail, EmailB, NoType, NoTier, NoPartner, 0, 4900,
                    "crowbar_master", "paid")
CsAnon == Lifetime("cs_anon", NoEmail, "basic", 4900)
CsBlank == Session("cs_blank", <<" ">>, EmailA, "lifetime_purchase", "basic", NoPartner, 0,
                   4900, "crowbar_master", "paid")

Lp7 == LimitedPass("lp_7", EmailA, "talentkonnect", 7)
Lp7c == LimitedPass("lp_7c", EmailA, "careduel", 7)
Lp12 == LimitedPass("lp_12", EmailA, "ecoworldbuy", 12)
LpBad == LimitedPass("lp_bad", EmailA, "careduel", 5)
LpNoPartner == LimitedPass("lp_nopartner", EmailA, NoPartner, 7)

Bu3500 == BalanceUpgrade("bu_3500", EmailA, 3500)
Bu3499 == BalanceUpgrade("bu_3499", EmailA, 3499)
Bu3501 == BalanceUpgrade("bu_3501", EmailA, 3501)
Bu4200 == BalanceUpgrade("bu_4200", EmailA, 4200)

\* event.id of the n-th checkout.session.completed event Stripe emits for a session
Evt(s, n) == <<s.id, n>>

Delivery(s, n) == [session |-> s, event |-> Evt(s, n)]

\* the event object Stripe posts: event.type, event.id, event.data.object
WebhookEvent(type, s, n) == [type |-> type, id |-> Evt(s, n), session |-> s]

LifetimeDeliveries ==
  {Delivery(CsD19, 1), Delivery(CsBasic, 1), Delivery(CsBasic, 2), Delivery(CsPro, 1),
   Delivery(CsElite, 1), Delivery(CsGold, 1), Delivery(CsNoTier, 1), Delivery(CsAnon, 1),
   Delivery(CsBlank, 1)}

LimitedDeliveries ==
  {Delivery(Lp7, 1), Delivery(Lp7c, 1), Delivery(Lp12, 1), Delivery(LpBad, 1),
   Delivery(LpNoPartner, 1),
   Delivery(Bu3500, 1), Delivery(Bu3500, 2), Delivery(Bu3499, 1), Delivery(Bu3501, 1),
   Delivery(Bu4200, 1)}

AllSessions == {d.session : d \in LifetimeDeliveries \cup LimitedDeliveries}

(* --------------------------- credits API ------------------------------ *)

\* creditsController.earnCredits: amount is the integer parseInt returns
earnCredits(email, amount, origin) ==
  /\ ops < MaxOps
  /\ IF amount = 0
     THEN /\ last' = Answer("earnCredits", email, Fail("Email, amount, and origin are required"))
          /\ UNCHANGED <<users, ledger, credits>>
     ELSE /\ credits' = Append(credits,
                          CreditsRow(email, amount, origin, NoEvent, NoSession, FALSE))
          /\ ledger' = LedgerInsert(ledger,
                         LedgerRow(email, amount, <<"api.earn">>, origin, NoEvent, NoSession,
                                   NoAmount, now))
          /\ users' = bumpUserCredits(users, email, amount)
          /\ last' = [Answer("earnCredits", email, Ok) EXCEPT !.arg.amount = amount]
  /\ ops' = ops + 1
  /\ UNCHANGED <<referrals, stripe, now, calls>>

\* keeps the sign of the input
Abs_Signed(n) == n

\* Math.abs
Abs(n) == IF n < 0 THEN -n ELSE n

\* creditsController.spendCredits: delta = -Math.abs(parseInt(amount))
spendCredits(email, amount, origin) ==
  /\ ops < MaxOps
  /\ IF amount = 0
     THEN /\ last' = Answer("spendCredits", email, Fail("Email and amount are required"))
          /\ UNCHANGED <<users, ledger, credits>>
     ELSE LET delta == -Abs(amount)
              origin_site == IF origin = NoPartner THEN "spend" ELSE origin
          IN /\ credits' = Append(credits,
                             CreditsRow(email, delta, origin_site, NoEvent, NoSession, FALSE))
             /\ ledger' = LedgerInsert(ledger,
                            LedgerRow(email, delta, <<"api.spend">>, origin_site, NoEvent,
                                      NoSession, NoAmount, now))
             /\ users' = bumpUserCredits(users, email, delta)
             /\ last' = [Answer("spendCredits", email, Ok) EXCEPT !.arg.amount = amount]
  /\ ops' = ops + 1
  /\ UNCHANGED <<referrals, stripe, now, calls>>

(* ------------------------------ referrals ----------------------------- *)

ReferralBonus == 25

ReferralRow(referrer, referred, code) ==
  [referrer_email |-> referrer, referred_email |-> referred, referral_code |-> code]

\* email.toLowerCase()
LowerEmail(e) == [i \in 1..Len(e) |-> ToLowerChar(e[i])]

\* email.includes('@')
IncludesAt(e) == \E i \in 1..Len(e) : e[i] = "@"

\* (promo_code || '').trim(): the code is one token between blanks; '' is NoCode
TrimCode(raw) ==
  LET tokens == TrimEnd(TrimStart(raw))
  IN IF tokens = <<>> THEN NoCode ELSE Head(tokens)

\* users.select().eq('referral_code', code).single(): the rows it matches
ReferrersOf(U, code) == {e \in UserKeys : U[e].exists /\ U[e].referral_code = code}

\* never finds a referral row
ExistingReferral_None(R, email) == FALSE

\* referrals.select('id').eq('referred_email', email).maybeSingle()
ExistingReferral(R, email) == \E r \in Rows(R) : r.referred_email = email

\* step 5 of applyReferralCode calls the route handler earnCredits(req, res) with
\* (email, 25, 'referral_signup'): req.body is undefined on a string, the
\* destructuring throws, and the handler's own catch throws again on res.status,
\* res being the number 25. No table is written; the call rejects.
earnCreditsAsHelper(T, email, amount, reason) == [tables |-> T, threw |-> TRUE]

\* step 5 as the other copy of the controller writes it: users.total_credits and
\* a ledger row, with no credits row, for the lower-cased referrer email
awardReferrerInline(T, email, amount, reason) ==
  [tables |->
     Tables(IF T.users[email].exists
            THEN [T.users EXCEPT ![email].total_credits = T.users[email].total_credits + amount]
            ELSE T.users,
            LedgerInsert(T.ledger,
              LedgerRow(email, amount, reason, "crowbar", NoEvent, NoSession, NoAmount, now)),
            T.credits),
   threw |-> FALSE]

\* applyReferralCode up to step 4, then step 5 as the copy of the controller
\* in use awards the referrer (inline: the copy in unnamed/part_002)
applyReferralCodeWith(rawEmail, rawCode, inline) ==
  /\ ops < MaxOps
  /\ LET email == LowerEmail(rawEmail)
         code == TrimCode(rawCode)
         req == [NoReq EXCEPT !.code = code]
         Reject(http, msg) ==
           /\ last' = [Answer("applyReferralCode", email, Fail(msg))
                        EXCEPT !.arg = req, !.http = http]
           /\ UNCHANGED <<users, ledger, credits, referrals>>
     IN IF email = NoEmail \/ ~ IncludesAt(email)
        THEN Reject(BadRequest, "Valid user email is required")
        ELSE IF code = NoCode
        THEN Reject(BadRequest, "Referral code is required")
        ELSE IF Cardinality(ReferrersOf(users, code)) # 1
        THEN Reject(NotFound, "Invalid referral code")
        ELSE
          LET referrer == CHOOSE e \in ReferrersOf(users, code) : TRUE
              refEmail == LowerEmail(referrer)
          IN IF refEmail = email
             THEN Reject(BadRequest, "You cannot use your own referral code")
             ELSE IF ExistingReferral(referrals, email)
             THEN Reject(BadRequest, "Referral code already used for this account")
             ELSE
               LET U1 == IF email \in UserKeys /\ users[email].exists
                         THEN [users EXCEPT ![email].referred_by = refEmail]
                         ELSE users
                   T1 == Tables(U1, ledger, credits)
                   earned == IF inline
                             THEN awardReferrerInline(T1, refEmail, ReferralBonus,
                                                      <<"referral_signup">>)
                             ELSE earnCreditsAsHelper(T1, refEmail, ReferralBonus,
                                                      <<"referral_signup">>)
               IN /\ referrals' = Append(referrals, ReferralRow(refEmail, email, code))
                  /\ Commit(earned.tables)
                  /\ last' = IF earned.threw
                             THEN [Answer("applyReferralCode", email,
                                          Fail("Server error applying referral code"))
                                     EXCEPT !.arg = req, !.http = ServerError]
                             ELSE [Answer("applyReferralCode", email, Ok) EXCEPT !.arg = req]
  /\ ops' = ops + 1
  /\ UNCHANGED <<stripe, now, calls>>

\* POST apply_referral_code (controllers/creditsController.js)
applyReferralCode(rawEmail, rawCode) ==
  applyReferralCodeWith(rawEmail, rawCode, FALSE)

\* the same route in the copy of the controller that awards inline
applyReferralCodeInline(rawEmail, rawCode) ==
  applyReferralCodeWith(rawEmail, rawCode, TRUE)

(* ------------------------------ gate flow ----------------------------- *)

GateSessionIds == {"gs_1", "gs_2"}

AccessPassPrice == 4900

\* CREDIT_MAP[origin] ?? 0
CreditMap(origin) ==
  CASE origin = "access_pass" -> 49
    [] origin = "talentkonnect" -> 7
    [] origin = "careduel" -> 3
    [] origin = "ecoworldbuy" -> 7
    [] OTHER -> 0

\* gate variant: also recomputes full_access from the new total
bumpUserSpendGate(U, email, cents) ==
  LET U1 == ensureUser(U, email)
      newSpent == U1[email].total_spent + cents
  IN [U1 EXCEPT ![email].total_spent = newSpent,
                ![email].full_access = (newSpent >= 9900)]

hasAccessPass(C, email) ==
  \E r \in Rows(C) : r.email = email /\ r.origin_site = "access_pass" /\ r.legal_accept

\* never finds today's reward
partnerRewardAlreadyGivenToday_Never(L, email, origin, day) == FALSE

partnerRewardAlreadyGivenToday(L, email, origin, day) ==
  \E r \in Rows(L) :
    /\ r.email = email
    /\ r.origin_site = origin
    /\ r.reason = <<"action.rewarded">>
    /\ r.created_at = day

awardPartnerOncePerDay(T, email, origin, day) ==
  LET amount == CreditMap(origin)
  IN IF amount <= 0 \/ partnerRewardAlreadyGivenToday(T.ledger, email, origin, day)
     THEN T
     ELSE Tables(
            bumpUserCredits(T.users, email, amount),
            LedgerInsert(T.ledger,
              LedgerRow(email, amount, <<"action.rewarded">>, origin, NoEvent, NoSession,
                        NoAmount, day)),
            Append(T.credits, CreditsRow(email, amount, origin, NoEvent, NoSession, TRUE)))

\* session.metadata.user_email || session.customer_email, as written
GateSessionEmail(s) == IF s.user_email # NoEmail THEN s.user_email ELSE s.customer_email

\* never finds the session's row
SessionAlreadyLogged_Never(L, s) == FALSE

\* credits_ledger rows of this session with reason checkout.session.completed
SessionAlreadyLogged(L, s) ==
  \E r \in Rows(L) :
    r.stripe_session_id = s.id /\ r.reason = <<"checkout.session.completed">>

awardAccessPassIfNeededFromSession(T, s, day) ==
  LET email == GateSessionEmail(s)
  IN IF email = NoEmail \/ SessionAlreadyLogged(T.ledger, s)
     THEN T
     ELSE LET U1 == bumpUserCredits(T.users, email, CreditMap("access_pass"))
              U2 == IF s.amount_total # 0
                    THEN bumpUserSpendGate(U1, email, s.amount_total) ELSE U1
          IN Tables(
               U2,
               LedgerInsert(T.ledger,
                 LedgerRow(email, CreditMap("access_pass"), <<"checkout.session.completed">>,
                           "access_pass", NoEvent, s.id,
                           IF s.amount_total # 0 THEN s.amount_total ELSE NoAmount, day)),
               Append(T.credits,
                 CreditsRow(email, CreditMap("access_pass"), "access_pass", NoEvent,
                            NoSession, s.legal_accept)))

\* PARTNER_MAP[key]: the partner's site, NoUrl for any other key
NoUrl == "none"

PartnerMap(key) ==
  CASE key = "talentkonnect" -> "https://talentkonnect-redesign.vercel.app"
    [] key = "careduel" -> "https://careduel-redesign.vercel.app"
    [] key = "ecoworldbuy" -> "https://ecoworldbuy-redesign.vercel.app"
    [] OTHER -> NoUrl

\* a || b on keys and URLs
OrElse(a, b) == IF a # "none" THEN a ELSE b

\* what a caller may send as legal_accept; "undefined" is String(undefined)
LegalValues == {"true", "TRUE", "false", "undefined"}

LowerWord(v) == IF v = "TRUE" THEN "true" ELSE v

\* takes any value for an acceptance
LegalAccepted_Always(v) == TRUE

\* String(legal_accept).toLowerCase() === 'true'
LegalAccepted(v) == LowerWord(v) = "true"

GateSession(id, email, origin, return_to) ==
  [Session(id, email, email, NoType, NoTier, NoPartner, 0, AccessPassPrice,
           "access_pass", "unpaid")
     EXCEPT !.status = "open", !.legal_accept = TRUE, !.origin = origin,
            !.return_to = OrElse(return_to, origin)]

\* POST /api/gate/start
startGate(email, origin, legal_accept, return_to) ==
  /\ ops < MaxOps
  /\ LET req == [NoReq EXCEPT !.origin = origin, !.legal_accept = legal_accept,
                              !.return_to = return_to]
     IN IF PartnerMap(origin) = NoUrl
        THEN /\ last' = [Answer("startGate", email, Fail("invalid origin")) EXCEPT !.arg = req]
             /\ UNCHANGED <<users, ledger, credits, stripe>>
        ELSE IF hasAccessPass(credits, email)
        THEN /\ Commit(awardPartnerOncePerDay(Tables(users, ledger, credits), email, origin, now))
             /\ last' = [Answer("startGate", email, Result(TRUE, FALSE, "redirect"))
                          EXCEPT !.arg = req, !.redirect_url = PartnerMap(origin)]
             /\ UNCHANGED stripe
        ELSE IF ~ LegalAccepted(legal_accept)
        THEN /\ last' = [Answer("startGate", email, Fail("legal_accept is required"))
                          EXCEPT !.arg = req]
             /\ UNCHANGED <<users, ledger, credits, stripe>>
        ELSE /\ \E id \in GateSessionIds :
                  /\ stripe[id] = NullSession
                  /\ stripe' = [stripe EXCEPT ![id] = GateSession(id, email, origin, return_to)]
             /\ last' = [Answer("startGate", email, Result(TRUE, FALSE, "need_payment"))
                          EXCEPT !.arg = req]
             /\ UNCHANGED <<users, ledger, credits>>
  /\ ops' = ops + 1
  /\ UNCHANGED <<referrals, now, calls>>

\* the customer pays an open checkout session on the gateway's page
payGateSession(id) ==
  /\ stripe[id] # NullSession
  /\ stripe[id].status = "open"
  /\ stripe' = [stripe EXCEPT ![id].payment_status = "paid", ![id].status = "complete"]
  /\ UNCHANGED <<users, ledger, credits, referrals, now, last, ops, calls>>

\* the gateway completes an open session with no payment received: nothing was
\* due (payment_status no_payment_required, amount 0) or the money is still
\* on its way (payment_status unpaid)
closeGateSessionUnpaid(id) ==
  /\ stripe[id] # NullSession
  /\ stripe[id].status = "open"
  /\ \/ stripe' = [stripe EXCEPT ![id].status = "complete"]
     \/ stripe' = [stripe EXCEPT ![id].status = "complete",
                                 ![id].payment_status = "no_payment_required",
                                 ![id].amount_total = 0]
  /\ UNCHANGED <<users, ledger, credits, referrals, now, last, ops, calls>>

\* session.payment_status !== 'paid' && session.status !== 'complete'
SessionNotPaid(s) == s.payment_status # "paid" /\ s.status # "complete"

\* POST /api/gate/complete with a session_id the gateway knows
completeGateSession(s, origin, return_to) ==
  /\ ops < MaxOps
  /\ LET email == GateSessionEmail(s)
         finalOrigin == OrElse(origin, s.origin)
         finalReturnKey == OrElse(return_to, OrElse(s.return_to, finalOrigin))
         req == [NoReq EXCEPT !.origin = finalOrigin, !.return_to = return_to]
     IN IF SessionNotPaid(s)
        THEN /\ last' = [Answer("completeGate", email, Fail("session_not_paid"))
                          EXCEPT !.session = s, !.arg = req]
             /\ UNCHANGED <<users, ledger, credits>>
        ELSE LET T1 == awardAccessPassIfNeededFromSession(Tables(users, ledger, credits),
                                                          s, now)
                 T2 == IF PartnerMap(finalOrigin) # NoUrl
                       THEN awardPartnerOncePerDay(T1, email, finalOrigin, now)
                       ELSE T1
             IN /\ Commit(T2)
                /\ last' = [Answer("completeGate", email, Result(TRUE, FALSE, "redirect"))
                             EXCEPT !.session = s, !.arg = req,
                                    !.redirect_url =
                                       OrElse(PartnerMap(finalReturnKey),
                                              OrElse(PartnerMap(finalOrigin), "/"))]
  /\ ops' = ops + 1
  /\ UNCHANGED <<referrals, stripe, now, calls>>

\* POST /api/gate/complete with email + origin and no session_id
completeGateEmail(email, origin, return_to) ==
  /\ ops < MaxOps
  /\ LET req == [NoReq EXCEPT !.origin = origin, !.return_to = return_to]
     IN IF ~ hasAccessPass(credits, email)
        THEN /\ last' = [Answer("completeGate", email, Fail("access_pass_required"))
                          EXCEPT !.arg = req]
             /\ UNCHANGED <<users, ledger, credits>>
        ELSE /\ Commit(awardPartnerOncePerDay(Tables(users, ledger, credits), email, origin,
                                              now))
             /\ last' = [Answer("completeGate", email, Result(TRUE, FALSE, "redirect"))
                          EXCEPT !.arg = req,
                                 !.redirect_url =
                                    OrElse(PartnerMap(OrElse(return_to, origin)), "/")]
  /\ ops' = ops + 1
  /\ UNCHANGED <<referrals, stripe, now, calls>>

(* ----------------------- createCheckoutSession ------------------------ *)

\* a session as stripe.checkout.sessions.create returns it: open and unpaid
OpenSession(s) == [s EXCEPT !.status = "open", !.payment_status = "unpaid"]

\* the amount behind STRIPE_PRICE_DISCOUNT_19, _BASIC_49, _PRO_99, _ELITE_499
TierPrice(tier) ==
  CASE tier = "discount19" -> 1900
    [] tier = "basic" -> 4900
    [] tier = "pro" -> 9900
    [] OTHER -> 49900

AgeRanges == {"Under 25", "Over 60"}

\* paidTotal <= 0 || paidTotal >= 49
InvalidPaidTotal(paidTotal) == paidTotal <= 0 \/ paidTotal >= UpgradeTarget

\* POST /api/stripe/create-checkout-session; age_verified is set by no code of
\* the backend, so the pre_verified route of discount19 is always refused;
\* files: whether the three KYC documents came with the request
createCheckoutSession(rawEmail, tier, mode, partnerKey, passAmount, ageRange, files) ==
  /\ ops < MaxOps
  /\ LET email == NormEmail(rawEmail)
         effectiveMode == IF mode = NoType THEN "lifetime" ELSE mode
         refused ==
           IF rawEmail = NoEmail \/ ~ IncludesAt(rawEmail) THEN "Valid email is required"
           ELSE IF effectiveMode = "limited_pass"
           THEN IF partnerKey = NoPartner THEN "partnerKey is required for limited_pass"
                ELSE IF partnerKey \notin Partners THEN "Invalid partnerKey"
                ELSE IF passAmount \notin PassAmounts THEN "passAmount must be 7, 9, or 12"
                ELSE "none"
           ELSE IF effectiveMode = "balance_upgrade"
           THEN IF ~ users[email].exists \/ users[email].access_mode # "limited"
                THEN "Balance upgrade allowed only for limited users"
                ELSE IF InvalidPaidTotal(users[email].limited_paid_amount)
                THEN "Invalid limited_paid_amount"
                ELSE "none"
           ELSE IF tier \notin KnownTiers THEN "Valid tier is required"
           ELSE IF tier = "discount19" /\ ageRange = "pre_verified"
           THEN "User not eligible for discount tier"
           ELSE IF tier = "discount19" /\ ageRange \notin AgeRanges
           THEN "Age verification required for discount tier"
           ELSE IF tier = "discount19" /\ ~ files
           THEN "Government ID, live selfie, and social media link required"
           ELSE "none"
         created ==
           IF effectiveMode = "limited_pass"
           THEN LimitedPass("none", email, partnerKey, passAmount)
           ELSE IF effectiveMode = "balance_upgrade"
           THEN BalanceUpgrade("none", email,
                               (UpgradeTarget - users[email].limited_paid_amount) * 100)
           ELSE Lifetime("none", email, tier, TierPrice(tier))
     IN IF refused # "none"
        THEN /\ last' = Answer("createCheckoutSession", email, Fail(refused))
             /\ UNCHANGED stripe
        ELSE \E id \in GateSessionIds :
               /\ stripe[id] = NullSession
               /\ stripe' = [stripe EXCEPT ![id] = [OpenSession(created) EXCEPT !.id = id]]
               /\ last' = [Answer("createCheckoutSession", email, Ok)
                            EXCEPT !.session = stripe'[id]]
  /\ ops' = ops + 1
  /\ UNCHANGED <<users, ledger, credits, referrals, now, calls>>

(* ------------------------------- bridge ------------------------------- *)

\* rolling 30-day sum of amount_usd over the email's ledger rows
RECURSIVE RollingSpend(_, _, _)
RollingSpend(L, email, day) ==
  IF L = <<>> THEN 0
  ELSE (IF /\ Head(L).email = email
           /\ Head(L).amount_usd # NoAmount
           /\ Head(L).created_at >= day - 30
           /\ Head(L).created_at <= day
        THEN Head(L).amount_usd ELSE 0) + RollingSpend(Tail(L), email, day)

\* never finds the prior bonus
HasAutoUpgradeBonus_Never(L, email) == FALSE

\* credits_ledger.select.eq('reason', 'auto_upgrade_bonus').limit(1)
HasAutoUpgradeBonus(L, email) ==
  \E r \in Rows(L) : r.email = email /\ r.reason = <<"auto_upgrade_bonus">>

\* updated: whether the store takes the closing users.update, whose result
\* the code does not read
autoUpgradeIfEligibleWith(T, email, day, updated) ==
  LET userRow == T.users[email]
      effective == Max(RollingSpend(T.ledger, email, day), userRow.total_spent)
  IN IF (userRow.full_access /\ userRow.auto_upgraded_at) \/ effective < AutoUpgradeThreshold
     THEN T
     ELSE LET grant == ~ HasAutoUpgradeBonus(T.ledger, email)
              L1 == IF grant
                    THEN LedgerInsert(T.ledger,
                           LedgerRow(email, AutoUpgradeBonus, <<"auto_upgrade_bonus">>,
                                     "bridge_auto_upgrade", NoEvent, NoSession, NoAmount, day))
                    ELSE T.ledger
              U1 == IF grant THEN bumpUserCredits(T.users, email, AutoUpgradeBonus)
                    ELSE T.users
              U2 == IF updated
                    THEN [U1 EXCEPT ![email].full_access = TRUE,
                                    ![email].auto_upgraded_at = TRUE]
                    ELSE U1
          IN Tables(U2, L1, T.credits)

autoUpgradeIfEligible(T, email, day) == autoUpgradeIfEligibleWith(T, email, day, TRUE)

NoKey == "none"

\* the idempotency guard of syncCheckout
SyncAlreadyProcessed(L, sid, key) ==
  IF sid # NoSession
  THEN \E r \in Rows(L) : r.stripe_session_id = sid /\ r.delta >= 1
  ELSE /\ key # NoKey
       /\ \E r \in Rows(L) : r.reason = <<key>> /\ r.delta >= 1

\* POST /api/bridge/sync-checkout, authenticated, email and source_brand given
syncCheckoutWith(rawEmail, source, amount_cents, credits_delta, sid, key, unlock, updated) ==
  /\ ops < MaxOps
  /\ LET email == NormEmail(rawEmail)
         U0 == ensureUser(users, email)
         req == [NoReq EXCEPT !.amount = credits_delta, !.session_id = sid, !.key = key,
                              !.cents = amount_cents, !.unlock = unlock,
                              !.updated = updated]
     IN IF credits_delta <= 0 /\ ~ unlock
        THEN /\ last' = [Answer("syncCheckout", email, Fail("credits_delta must be > 0"))
                          EXCEPT !.arg = req]
             /\ UNCHANGED <<users, ledger, credits>>
        ELSE IF SyncAlreadyProcessed(ledger, sid, key)
        THEN /\ users' = U0
             /\ last' = [Answer("syncCheckout", email, Result(TRUE, TRUE, "none"))
                          EXCEPT !.arg = req]
             /\ UNCHANGED <<ledger, credits>>
        ELSE
          LET L1 == IF credits_delta > 0
                    THEN LedgerInsert(ledger,
                           LedgerRow(email, credits_delta,
                                     IF key # NoKey THEN <<key>> ELSE <<"bridge.sync_checkout">>,
                                     source, NoEvent, sid, amount_cents, now))
                    ELSE ledger
              C1 == IF /\ sid # NoSession
                       /\ credits_delta > 0
                       /\ ~ \E r \in Rows(credits) : r.stripe_session_id = sid
                    THEN Append(credits,
                           CreditsRow(email, credits_delta, source, NoEvent, sid, TRUE))
                    ELSE credits
              U1 == IF source = "ecoworldbuy" /\ unlock
                    THEN [U0 EXCEPT ![email].access = U0[email].access \cup {"ecoworldbuy"}]
                    ELSE U0
              U2 == IF credits_delta > 0 THEN bumpUserCredits(U1, email, credits_delta)
                    ELSE U1
              U3 == IF amount_cents > 0 THEN bumpUserSpend(U2, email, amount_cents) ELSE U2
          IN /\ Commit(autoUpgradeIfEligibleWith(Tables(U3, L1, C1), email, now, updated))
             /\ last' = [Answer("syncCheckout", email, Ok) EXCEPT !.arg = req]
  /\ ops' = ops + 1
  /\ UNCHANGED <<referrals, stripe, now, calls>>

syncCheckout(rawEmail, source, amount_cents, credits_delta, sid, key, unlock) ==
  syncCheckoutWith(rawEmail, source, amount_cents, credits_delta, sid, key, unlock, TRUE)

(* ------------------------- profile completion ------------------------- *)

\* pays the bonus on every complete request
AlreadyRewarded_Never(row) == FALSE

\* updatedUser.profile_completed === true
AlreadyRewarded(row) == row.profile_completed

\* POST /user/update-profile (routes/user.js); profile and kyc tell whether the
\* request fills every profile field and every KYC field. The ledger insert names
\* user_id and no email: the store keeps the row without an email or rejects it.
updateProfile(rawEmail, profile, kyc) ==
  /\ ops < MaxOps
  /\ LET email == LowerEmail(rawEmail)
     IN IF ~ users[email].exists
        THEN /\ last' = [Answer("updateProfile", email, Fail("Failed to update profile"))
                          EXCEPT !.http = ServerError]
             /\ UNCHANGED <<users, ledger>>
        ELSE LET updatedUser == [users[email] EXCEPT !.profile_fields = profile,
                                                     !.kyc_fields = kyc]
             IN /\ last' = Answer("updateProfile", email, Ok)
                /\ IF profile /\ kyc /\ ~ AlreadyRewarded(updatedUser)
                   THEN /\ users' = [users EXCEPT ![email] =
                                       [updatedUser EXCEPT
                                          !.total_credits = updatedUser.total_credits
                                                            + ProfileBonus,
                                          !.profile_completed = TRUE]]
                        /\ \E stored \in BOOLEAN :
                             ledger' = IF stored
                                       THEN Append(ledger,
                                              LedgerRow(NoEmail, ProfileBonus, <<"reward">>,
                                                        "Profile + KYC bonus", NoEvent,
                                                        NoSession, NoAmount, now))
                                       ELSE ledger
                   ELSE /\ users' = [users EXCEPT ![email] = updatedUser]
                        /\ UNCHANGED ledger
  /\ ops' = ops + 1
  /\ UNCHANGED <<credits, referrals, stripe, now, calls>>


(* ---------------- requests in flight, store call by store call -------- *)

\* the requests that can be in flight together
CallIds == {1, 2, 3, 4}

\* a request between two awaits: where it stands (pc), what it was sent, what
\* its reads returned (curr, prev, row), the referral code it generated (code),
\* the request body (arg), what it answered (responses) and what the
\* reconciliation returned (result)
NoCall ==
  [kind |-> "none", pc |-> "idle", email |-> NoEmail, delta |-> 0, reason |-> <<>>,
   origin |-> NoPartner, event |-> WebhookEvent("none", NullSession, 0),
   signature |-> NoSignature, curr |-> 0, prev |-> 0, passed |-> FALSE,
   row |-> NoUserRow, fault |-> FALSE, responses |-> <<>>, result |-> NoResult,
   rejected |-> FALSE, code |-> NoCode, arg |-> NoReq]

SetCall(c, rec) == calls' = [calls EXCEPT ![c] = rec]

At(c, kinds, pc) == calls[c].kind \in kinds /\ calls[c].pc = pc

\* res.status(http).json(...)
Respond(rec, http) == [rec EXCEPT !.responses = Append(rec.responses, http)]

(* creditsController.earnCredits / spendCredits, one store call at a time *)

CreditsKinds == {"earnCredits", "spendCredits"}

\* the request arrives: validation, parseInt, and for spend -Math.abs
StartCredits(c, op, email, amount, origin) ==
  /\ calls[c].kind = "none"
  /\ LET rec == [NoCall EXCEPT
                   !.kind = op, !.email = email,
                   !.delta = IF op = "spendCredits" THEN -Abs(amount) ELSE amount,
                   !.reason = IF op = "spendCredits" THEN <<"api.spend">> ELSE <<"api.earn">>,
                   !.origin = IF op = "spendCredits" /\ origin = NoPartner
                              THEN "spend" ELSE origin]
     IN IF amount = 0
        THEN SetCall(c, [Respond(rec, BadRequest) EXCEPT !.pc = "done"])
        ELSE SetCall(c, [rec EXCEPT !.pc = "credits.insert"])
  /\ UNCHANGED <<users, ledger, credits, referrals, stripe, now, last, ops>>

\* supabase.from('credits').insert
CreditsInsertStep(c) ==
  /\ At(c, CreditsKinds, "credits.insert")
  /\ credits' = Append(credits, CreditsRow(calls[c].email, calls[c].delta, calls[c].origin,
                                            NoEvent, NoSession, FALSE))
  /\ SetCall(c, [calls[c] EXCEPT !.pc = "ledger.insert"])
  /\ UNCHANGED <<users, ledger, referrals, stripe, now, last, ops>>

\* supabase.from('credits_ledger').insert
CreditsLedgerStep(c) ==
  /\ At(c, CreditsKinds, "ledger.insert")
  /\ ledger' = LedgerInsert(ledger,
                  LedgerRow(calls[c].email, calls[c].delta, calls[c].reason, calls[c].origin,
                            NoEvent, NoSession, NoAmount, now))
  /\ SetCall(c, [calls[c] EXCEPT !.pc = "bump.ensure"])
  /\ UNCHANGED <<users, credits, referrals, stripe, now, last, ops>>

\* bumpUserCredits: await ensureUser(email)
BumpEnsureStep(c) ==
  /\ At(c, CreditsKinds, "bump.ensure")
  /\ users' = ensureUser(users, calls[c].email)
  /\ SetCall(c, [calls[c] EXCEPT !.pc = "bump.select"])
  /\ UNCHANGED <<ledger, credits, referrals, stripe, now, last, ops>>

\* curr?.total_credits || 0
ReadCredits(U, email) == IF U[email].exists THEN U[email].total_credits ELSE 0

\* bumpUserCredits: select('total_credits').eq('email', email).single()
BumpSelectStep(c) ==
  /\ At(c, CreditsKinds, "bump.select")
  /\ SetCall(c, [calls[c] EXCEPT !.pc = "bump.update",
                                 !.curr = ReadCredits(users, calls[c].email)])
  /\ UNCHANGED <<users, ledger, credits, referrals, stripe, now, last, ops>>

\* writes back what it read
NewTotal_Stale(curr, delta) == curr

\* const newTotal = (curr?.total_credits || 0) + deltaCredits
NewTotal(curr, delta) == curr + delta

\* update(...).eq('email', email): changes the rows that match, none if none does
UpdateUser(U, email, field, value) ==
  IF U[email].exists THEN [U EXCEPT ![email][field] = value] ELSE U

\* bumpUserCredits: update({ total_credits: newTotal }), then res.json
BumpUpdateStep(c) ==
  /\ At(c, CreditsKinds, "bump.update")
  /\ users' = UpdateUser(users, calls[c].email, "total_credits",
                         NewTotal(calls[c].curr, calls[c].delta))
  /\ SetCall(c, [Respond(calls[c], HttpOk) EXCEPT !.pc = "done"])
  /\ UNCHANGED <<ledger, credits, referrals, stripe, now, last, ops>>

CreditsCallStep(c) ==
  \/ CreditsInsertStep(c)
  \/ CreditsLedgerStep(c)
  \/ BumpEnsureStep(c)
  \/ BumpSelectStep(c)
  \/ BumpUpdateStep(c)

(* handleWebhook -> processWebhookEvent -> handleSuccessfulPayment, one store *)
(* call at a time                                                            *)

\* leaves the request unanswered
Acknowledge_Never(rec) == rec

\* res.json({ received: true, status: 'processing', ... })
Acknowledge(rec) == Respond(rec, HttpOk)

\* handleSuccessfulPayment returns to processWebhookEvent, which logs the result
Return(rec, res) == [rec EXCEPT !.pc = "done", !.result = res]

\* a store error thrown inside handleSuccessfulPayment: its own catch turns it
\* into { success: false, error }
Throw(rec, error) == Return([rec EXCEPT !.fault = TRUE], Fail(error))

\* no store call of any request has failed so far
NoFaultYet == \A c \in CallIds : ~ calls[c].fault

CallSession(c) == calls[c].event.session

CallEvent(c) == calls[c].event.id

\* upsert(values, { onConflict: 'email' }): the row to write the values over
UpsertBase(U, email) == IF U[email].exists THEN U[email] ELSE NewUserRow

\* the request arrives: signature check, acknowledgement, and the synchronous
\* start of processWebhookEvent up to the first await of handleSuccessfulPayment
ArriveWebhook(c, event, sig) ==
  /\ calls[c].kind = "none"
  /\ LET s == event.session
         rec == [NoCall EXCEPT !.kind = "handleWebhook", !.event = event,
                               !.signature = sig, !.email = SessionEmail(s)]
         acked == Acknowledge(rec)
     IN IF ~ VerifiedSignature(event.id, sig)
        THEN SetCall(c, [Respond(rec, BadRequest) EXCEPT !.pc = "done"])
        ELSE IF event.type # "checkout.session.completed" \/ s.payment_status # "paid"
        THEN SetCall(c, [acked EXCEPT !.pc = "done"])
        ELSE IF SessionEmail(s) = NoEmail
        THEN SetCall(c, Return(acked, Fail("No email")))
        ELSE SetCall(c, [acked EXCEPT !.pc = "ledger.check"])
  /\ UNCHANGED <<users, ledger, credits, referrals, stripe, now, last, ops>>

\* credits_ledger.select.eq('stripe_event_id', sourceEventId).maybeSingle(), and
\* the validation of a limited pass, which reads no table
LedgerCheckStep(c) ==
  /\ At(c, {"handleWebhook"}, "ledger.check")
  /\ LET s == CallSession(c)
         paymentType == PaymentTypeOf(s)
     IN IF ExistingLedgerRecord(ledger, CallEvent(c))
        THEN SetCall(c, Return(calls[c], Result(TRUE, TRUE, "none")))
        ELSE LET rec == [calls[c] EXCEPT !.passed = TRUE]
             IN IF paymentType = "limited_pass"
                THEN IF s.partner_key = NoPartner
                     THEN SetCall(c, Return(rec, Fail("Missing partner_key in metadata")))
                     ELSE IF s.limited_paid_amount \notin PassAmounts
                     THEN SetCall(c, Return(rec, Fail("Invalid limited_paid_amount")))
                     ELSE SetCall(c, [rec EXCEPT !.pc = "lp.ensure"])
                ELSE IF paymentType = "balance_upgrade"
                THEN SetCall(c, [rec EXCEPT !.pc = "bu.select"])
                ELSE SetCall(c, [rec EXCEPT !.pc = "user.select"])
  /\ UNCHANGED <<users, ledger, credits, referrals, stripe, now, last, ops>>

\* limited pass: await ensureUser(email)
LimitedEnsureStep(c) ==
  /\ At(c, {"handleWebhook"}, "lp.ensure")
  /\ users' = ensureUser(users, calls[c].email)
  /\ SetCall(c, [calls[c] EXCEPT !.pc = "lp.select"])
  /\ UNCHANGED <<ledger, credits, referrals, stripe, now, last, ops>>

\* limited pass: read limited_partner, limited_paid_amount and the access flags
LimitedSelectStep(c) ==
  /\ At(c, {"handleWebhook"}, "lp.select")
  /\ SetCall(c, [calls[c] EXCEPT !.pc = "lp.upsert", !.row = users[calls[c].email]])
  /\ UNCHANGED <<users, ledger, credits, referrals, stripe, now, last, ops>>

\* limited pass: upsert(userUpdateLimited), computed from the row that was read
LimitedUpsertStep(c) ==
  /\ At(c, {"handleWebhook"}, "lp.upsert")
  /\ LET s == CallSession(c)
         email == calls[c].email
         existing == calls[c].row
         newTotalPaid == NewTotalPaid(existing.limited_paid_amount, s.limited_paid_amount)
     IN users' = [users EXCEPT ![email] =
                    [UpsertBase(users, email) EXCEPT
                       !.access_mode = "limited",
                       !.limited_partner = existing.limited_partner \cup {s.partner_key},
                       !.limited_paid_amount = newTotalPaid,
                       !.upgrade_balance_amount = Max(UpgradeTarget - newTotalPaid, 0),
                       !.crowbar_access = TRUE,
                       !.full_access = FALSE,
                       !.access = existing.access \cup ({s.partner_key} \cap Partners)]]
  /\ SetCall(c, [calls[c] EXCEPT !.pc = "spend.ensure"])
  /\ UNCHANGED <<ledger, credits, referrals, stripe, now, last, ops>>

\* balance upgrade: select('access_mode, limited_paid_amount') and the validation
UpgradeSelectStep(c) ==
  /\ At(c, {"handleWebhook"}, "bu.select")
  /\ LET check == BalanceUpgradeCheck(users, CallSession(c), calls[c].email)
     IN IF check # "ok"
        THEN SetCall(c, Return(calls[c], Fail(check)))
        ELSE SetCall(c, [calls[c] EXCEPT !.pc = "user.select"])
  /\ UNCHANGED <<users, ledger, credits, referrals, stripe, now, last, ops>>

\* select('total_credits, total_spent, membership_tier'): prevCredits
UserSelectStep(c) ==
  /\ At(c, {"handleWebhook"}, "user.select")
  /\ SetCall(c, [calls[c] EXCEPT !.pc = "user.upsert",
                                 !.prev = ReadCredits(users, calls[c].email)])
  /\ UNCHANGED <<users, ledger, credits, referrals, stripe, now, last, ops>>

\* membership_tier || 'basic', forced to basic for a balance upgrade
CallTier(s) ==
  IF PaymentTypeOf(s) = "balance_upgrade" THEN "basic"
  ELSE IF s.membership_tier = NoTier THEN "basic" ELSE s.membership_tier

\* deltaCredits as computed from the prevCredits that was read
CallDelta(s, prevCredits) ==
  LET baseDelta == IF TierCredits(SafeTier(CallTier(s))) <= 0 THEN 49
                   ELSE TierCredits(SafeTier(CallTier(s)))
  IN IF PaymentTypeOf(s) = "balance_upgrade" THEN BalanceUpgradeDelta(prevCredits)
     ELSE baseDelta

\* newTotalCredits as computed from the prevCredits that was read
CallNewTotal(s, prevCredits) ==
  IF PaymentTypeOf(s) = "balance_upgrade" THEN BalanceUpgradeTotal(prevCredits)
  ELSE prevCredits + CallDelta(s, prevCredits)

\* upsert(userUpdate, { onConflict: 'email' })
UserUpsertStep(c) ==
  /\ At(c, {"handleWebhook"}, "user.upsert")
  /\ LET s == CallSession(c)
         email == calls[c].email
         row1 == [UpsertBase(users, email) EXCEPT
                    !.membership_tier = SafeTier(CallTier(s)),
                    !.total_credits = CallNewTotal(s, calls[c].prev),
                    !.crowbar_access = TRUE,
                    !.full_access = (CallTier(s) \in {"pro", "elite"})]
         row2 == IF PaymentTypeOf(s) = "balance_upgrade"
                 THEN [row1 EXCEPT
                         !.access_mode = "lifetime",
                         !.limited_partner = {},
                         !.limited_paid_amount = 0,
                         !.upgrade_balance_amount = NoAmount,
                         !.access = Partners]
                 ELSE row1
     IN users' = [users EXCEPT ![email] = row2]
  /\ SetCall(c, [calls[c] EXCEPT !.pc = "spend.ensure"])
  /\ UNCHANGED <<ledger, credits, referrals, stripe, now, last, ops>>

\* the users upsert fails: if (userError) throw userError
UserUpsertFails(c) ==
  /\ \/ At(c, {"handleWebhook"}, "user.upsert")
     \/ At(c, {"handleWebhook"}, "lp.upsert")
  /\ NoFaultYet
  /\ SetCall(c, Throw(calls[c], "users upsert failed"))
  /\ UNCHANGED <<users, ledger, credits, referrals, stripe, now, last, ops>>

\* bumpUserSpend: await ensureUser(email)
SpendEnsureStep(c) ==
  /\ At(c, {"handleWebhook"}, "spend.ensure")
  /\ users' = ensureUser(users, calls[c].email)
  /\ SetCall(c, [calls[c] EXCEPT !.pc = "spend.select"])
  /\ UNCHANGED <<ledger, credits, referrals, stripe, now, last, ops>>

\* bumpUserSpend: select('total_spent').eq('email', email).single()
SpendSelectStep(c) ==
  /\ At(c, {"handleWebhook"}, "spend.select")
  /\ SetCall(c, [calls[c] EXCEPT
                   !.pc = "spend.update",
                   !.curr = IF users[calls[c].email].exists
                            THEN users[calls[c].email].total_spent ELSE 0])
  /\ UNCHANGED <<users, ledger, credits, referrals, stripe, now, last, ops>>

\* bumpUserSpend: update({ total_spent: newSpent })
SpendUpdateStep(c) ==
  /\ At(c, {"handleWebhook"}, "spend.update")
  /\ users' = UpdateUser(users, calls[c].email, "total_spent",
                         calls[c].curr + CallSession(c).amount_total)
  /\ SetCall(c, [calls[c] EXCEPT
                   !.pc = IF PaymentTypeOf(CallSession(c)) = "limited_pass"
                          THEN "lp.ledger" ELSE "credits.insert"])
  /\ UNCHANGED <<ledger, credits, referrals, stripe, now, last, ops>>

\* the credits_ledger row of the payment
CallLedgerRow(c) ==
  LET s == CallSession(c)
  IN IF PaymentTypeOf(s) = "limited_pass"
     THEN LedgerRow(calls[c].email, 0,
            <<"payment.limited_pass", s.partner_key, AmountStr(s.limited_paid_amount)>>,
            "stripe_payment", CallEvent(c), s.id, s.amount_total, now)
     ELSE LedgerRow(calls[c].email, CallDelta(s, calls[c].prev),
            <<"membership_purchase", CallTier(s)>>,
            "stripe_payment", CallEvent(c), s.id, s.amount_total, now)

\* the credits row of the payment
CallCreditsRow(c) ==
  CreditsRow(calls[c].email,
             IF PaymentTypeOf(CallSession(c)) = "limited_pass" THEN 0
             ELSE CallDelta(CallSession(c), calls[c].prev),
             "stripe_payment", CallEvent(c), CallSession(c).id, TRUE)

\* supabase.from('credits').insert(creditsData)
PaymentCreditsStep(c) ==
  /\ \/ At(c, {"handleWebhook"}, "credits.insert")
     \/ At(c, {"handleWebhook"}, "lp.credits")
  /\ credits' = Append(credits, CallCreditsRow(c))
  /\ SetCall(c, [calls[c] EXCEPT
                   !.pc = IF calls[c].pc = "lp.credits" THEN "referral" ELSE "ledger.insert"])
  /\ UNCHANGED <<users, ledger, referrals, stripe, now, last, ops>>

\* supabase.from('credits_ledger').insert(ledgerData); a 23505 duplicate is logged
\* and passed over
PaymentLedgerStep(c) ==
  /\ \/ At(c, {"handleWebhook"}, "ledger.insert")
     \/ At(c, {"handleWebhook"}, "lp.ledger")
  /\ ledger' = LedgerInsert(ledger, CallLedgerRow(c))
  /\ SetCall(c, [calls[c] EXCEPT
                   !.pc = IF calls[c].pc = "lp.ledger" THEN "lp.credits" ELSE "referral"])
  /\ UNCHANGED <<users, credits, referrals, stripe, now, last, ops>>

\* the ledger insert fails with another error: throw ledgerError
PaymentLedgerFails(c) ==
  /\ \/ At(c, {"handleWebhook"}, "ledger.insert")
     \/ At(c, {"handleWebhook"}, "lp.ledger")
  /\ NoFaultYet
  /\ SetCall(c, Throw(calls[c], "ledger insert failed"))
  /\ UNCHANGED <<users, ledger, credits, referrals, stripe, now, last, ops>>

\* try { await ensureReferralCodeForUser(supabase, email) } catch {}, then return
PaymentReferralStep(c) ==
  /\ At(c, {"handleWebhook"}, "referral")
  /\ \E code \in ReferralCodeChoices(users, calls[c].email) :
       users' = ensureReferralCodeForUser(users, calls[c].email, code)
  /\ SetCall(c, Return(calls[c], Result(TRUE, FALSE, "none")))
  /\ UNCHANGED <<ledger, credits, referrals, stripe, now, last, ops>>

PaymentCallStep(c) ==
  \/ LedgerCheckStep(c)
  \/ LimitedEnsureStep(c)
  \/ LimitedSelectStep(c)
  \/ LimitedUpsertStep(c)
  \/ UpgradeSelectStep(c)
  \/ UserSelectStep(c)
  \/ UserUpsertStep(c)
  \/ SpendEnsureStep(c)
  \/ SpendSelectStep(c)
  \/ SpendUpdateStep(c)
  \/ PaymentCreditsStep(c)
  \/ PaymentLedgerStep(c)
  \/ PaymentReferralStep(c)

(* ensureReferralCodeForUser at the end of handleSuccessfulPayment, one store *)
(* call at a time                                                             *)

\* never finds the user's code
HasReferralCode_Never(row) == FALSE

\* if (user?.referral_code) return user.referral_code
HasReferralCode(row) == row.referral_code # NoCode

\* the store's unique constraint on users.referral_code: another row holds the code
ReferralCodeTaken(U, email, code) ==
  \E e \in UserKeys \ {email} : U[e].exists /\ U[e].referral_code = code

\* users.select('referral_code').eq('email', normEmail).single(); a missing row is
\* an error the caller's empty catch swallows
ReferralSelectStep(c) ==
  /\ At(c, {"handleWebhook"}, "referral")
  /\ LET user == users[calls[c].email]
         rec == [calls[c] EXCEPT !.row = user]
     IN IF ~ user.exists \/ HasReferralCode(user)
        THEN SetCall(c, Return(rec, Ok))
        ELSE SetCall(c, [rec EXCEPT !.pc = "rc.check"])
  /\ UNCHANGED <<users, ledger, credits, referrals, stripe, now, last, ops>>

\* one turn of the loop: generateReferralCode(), then
\* users.select('email').eq('referral_code', code).maybeSingle()
ReferralCheckStep(c) ==
  /\ At(c, {"handleWebhook"}, "rc.check")
  /\ \E code \in Codes :
       IF \E e \in UserKeys : users[e].exists /\ users[e].referral_code = code
       THEN UNCHANGED calls
       ELSE SetCall(c, [calls[c] EXCEPT !.pc = "rc.update", !.code = code])
  /\ UNCHANGED <<users, ledger, credits, referrals, stripe, now, last, ops>>

\* users.update({ referral_code: code }).eq('email', normEmail); the store's
\* refusal is thrown and swallowed by the caller's empty catch
ReferralUpdateStep(c) ==
  /\ At(c, {"handleWebhook"}, "rc.update")
  /\ LET email == calls[c].email
         code == calls[c].code
     IN IF ReferralCodeTaken(users, email, code)
        THEN UNCHANGED users
        ELSE users' = UpdateUser(users, email, "referral_code", code)
  /\ SetCall(c, Return(calls[c], Ok))
  /\ UNCHANGED <<ledger, credits, referrals, stripe, now, last, ops>>

(* gateController.startGate, one store call at a time *)

\* the request arrives: the checks on email and origin, up to await hasAccessPass
ArriveStartGate(c, email, origin, legal_accept, return_to) ==
  /\ calls[c].kind = "none"
  /\ LET rec == [NoCall EXCEPT
                   !.kind = "startGate", !.email = email, !.origin = origin,
                   !.arg = [NoReq EXCEPT !.origin = origin, !.legal_accept = legal_accept,
                                         !.return_to = return_to]]
     IN IF PartnerMap(origin) = NoUrl
        THEN SetCall(c, Return(Respond(rec, BadRequest), Fail("invalid origin")))
        ELSE SetCall(c, [rec EXCEPT !.pc = "gate.pass"])
  /\ UNCHANGED <<users, ledger, credits, referrals, stripe, now, last, ops>>

\* res.json({ success: true, need_payment: false, redirect_url })
GateRedirect(rec) == Return(Respond(rec, HttpOk), Result(TRUE, FALSE, "redirect"))

\* hasAccessPass's select on credits, then the start of awardPartnerOncePerDay
\* up to its first await, or the legal_accept check up to sessions.create
GatePassStep(c) ==
  /\ At(c, {"startGate"}, "gate.pass")
  /\ LET rec == [calls[c] EXCEPT !.passed = hasAccessPass(credits, calls[c].email),
                                 !.delta = CreditMap(calls[c].origin)]
     IN IF rec.passed
        THEN IF rec.delta <= 0
             THEN SetCall(c, GateRedirect(rec))
             ELSE SetCall(c, [rec EXCEPT !.pc = "award.check"])
        ELSE IF ~ LegalAccepted(rec.arg.legal_accept)
        THEN SetCall(c, Return(Respond(rec, BadRequest), Fail("legal_accept is required")))
        ELSE SetCall(c, [rec EXCEPT !.pc = "gate.create"])
  /\ UNCHANGED <<users, ledger, credits, referrals, stripe, now, last, ops>>

\* stripe.checkout.sessions.create, then res.json({ need_payment: true, ... })
GateCreateStep(c) ==
  /\ At(c, {"startGate"}, "gate.create")
  /\ \E id \in GateSessionIds :
       /\ stripe[id] = NullSession
       /\ stripe' = [stripe EXCEPT
                       ![id] = GateSession(id, calls[c].email, calls[c].origin,
                                           calls[c].arg.return_to)]
  /\ SetCall(c, Return(Respond(calls[c], HttpOk), Result(TRUE, FALSE, "need_payment")))
  /\ UNCHANGED <<users, ledger, credits, referrals, now, last, ops>>

\* awardPartnerOncePerDay: const already = await partnerRewardAlreadyGivenToday(...),
\* the select on credits_ledger for today's reward
AwardCheckStep(c) ==
  /\ At(c, {"startGate"}, "award.check")
  /\ IF partnerRewardAlreadyGivenToday(ledger, calls[c].email, calls[c].origin, now)
     THEN SetCall(c, GateRedirect(calls[c]))
     ELSE SetCall(c, [calls[c] EXCEPT !.pc = "award.credits"])
  /\ UNCHANGED <<users, ledger, credits, referrals, stripe, now, last, ops>>

\* awardPartnerOncePerDay: supabase.from('credits').insert
AwardCreditsStep(c) ==
  /\ At(c, {"startGate"}, "award.credits")
  /\ credits' = Append(credits, CreditsRow(calls[c].email, calls[c].delta, calls[c].origin,
                                            NoEvent, NoSession, TRUE))
  /\ SetCall(c, [calls[c] EXCEPT !.pc = "award.ledger"])
  /\ UNCHANGED <<users, ledger, referrals, stripe, now, last, ops>>

\* awardPartnerOncePerDay: supabase.from('credits_ledger').insert
AwardLedgerStep(c) ==
  /\ At(c, {"startGate"}, "award.ledger")
  /\ ledger' = LedgerInsert(ledger,
                  LedgerRow(calls[c].email, calls[c].delta, <<"action.rewarded">>,
                            calls[c].origin, NoEvent, NoSession, NoAmount, now))
  /\ SetCall(c, [calls[c] EXCEPT !.pc = "award.ensure"])
  /\ UNCHANGED <<users, credits, referrals, stripe, now, last, ops>>

\* bumpUserCredits: await ensureUser(email)
AwardEnsureStep(c) ==
  /\ At(c, {"startGate"}, "award.ensure")
  /\ users' = ensureUser(users, calls[c].email)
  /\ SetCall(c, [calls[c] EXCEPT !.pc = "award.select"])
  /\ UNCHANGED <<ledger, credits, referrals, stripe, now, last, ops>>

\* bumpUserCredits: select('total_credits').eq('email', email).single()
AwardSelectStep(c) ==
  /\ At(c, {"startGate"}, "award.select")
  /\ SetCall(c, [calls[c] EXCEPT !.pc = "award.update",
                                 !.curr = ReadCredits(users, calls[c].email)])
  /\ UNCHANGED <<users, ledger, credits, referrals, stripe, now, last, ops>>

\* bumpUserCredits: update({ total_credits: newTotal }), then startGate's res.json
AwardUpdateStep(c) ==
  /\ At(c, {"startGate"}, "award.update")
  /\ users' = UpdateUser(users, calls[c].email, "total_credits",
                         NewTotal(calls[c].curr, calls[c].delta))
  /\ SetCall(c, GateRedirect(calls[c]))
  /\ UNCHANGED <<ledger, credits, referrals, stripe, now, last, ops>>

GateCallStep(c) ==
  \/ GatePassStep(c)
  \/ GateCreateStep(c)
  \/ AwardCheckStep(c)
  \/ AwardCreditsStep(c)
  \/ AwardLedgerStep(c)
  \/ AwardEnsureStep(c)
  \/ AwardSelectStep(c)
  \/ AwardUpdateStep(c)


(* ------------------------- the state machine -------------------------- *)

Init ==
  /\ users = [e \in UserKeys |-> NoUserRow]
  /\ ledger = <<>>
  /\ credits = <<>>
  /\ referrals = <<>>
  /\ last = [Answer("none", NoEmail, NoResult) EXCEPT !.http = 0]
  /\ ops = 0
  /\ stripe = [id \in GateSessionIds |-> NullSession]
  /\ now = 0
  /\ calls = [c \in CallIds |-> NoCall]

\* processWebhookEvent: a paid checkout.session.completed event
Webhook == \E d \in LifetimeDeliveries \cup LimitedDeliveries :
             handleSuccessfulPayment(d.session, d.event)

NextPay == Webhook

(* the whole backend: webhook, credits API, gate, bridge and profile route *)

GateDeliveries == {Delivery(CsD19, 1), Delivery(CsD19, 2), Delivery(Lp7, 1)}

WebhookSmall == \E d \in GateDeliveries : handleSuccessfulPayment(d.session, d.event)

\* the webhook of a paid session that startGate created
WebhookGate == \E id \in GateSessionIds :
                 /\ stripe[id].payment_status = "paid"
                 /\ handleSuccessfulPayment(stripe[id], Evt(stripe[id], 1))

Earn == earnCredits(EmailA, 5, "careduel")

Spend == spendCredits(EmailA, 5, "careduel")

StartGate == \E legal \in {"true", "undefined"} : startGate(EmailA, "careduel", legal, NoPartner)

PayGate == \E id \in GateSessionIds : payGateSession(id)

CompleteGate ==
  \/ \E id \in GateSessionIds :
       stripe[id] # NullSession /\ completeGateSession(stripe[id], NoPartner, NoPartner)
  \/ completeGateSession(CsD19, "careduel", NoPartner)
  \/ completeGateEmail(EmailA, "careduel", NoPartner)

SyncCheckout ==
  \E sid \in {"cs_d19", "br_1", NoSession}, key \in {NoKey, "k1"},
     delta \in {0, 5}, unlock \in BOOLEAN :
    syncCheckout(RawA, "ecoworldbuy", 9900, delta, sid, key, unlock)

UpdateProfile == \E profile \in BOOLEAN, kyc \in BOOLEAN : updateProfile(UpperA, profile, kyc)

Next ==
  \/ WebhookSmall
  \/ WebhookGate
  \/ Earn
  \/ Spend
  \/ StartGate
  \/ PayGate
  \/ CompleteGate
  \/ SyncCheckout
  \/ UpdateProfile

Spec == Init /\ [][Next]_vars

(* the gate flow with the webhook and the bridge racing for the same session *)

SyncGate ==
  \E sid \in {"gs_1", NoSession}, delta \in {0, 5}, unlock \in BOOLEAN :
    syncCheckout(EmailA, "careduel", 4900, delta, sid, NoKey, unlock)

CompleteAnyGate ==
  \/ \E id \in GateSessionIds :
       stripe[id] # NullSession /\ completeGateSession(stripe[id], NoPartner, NoPartner)
  \/ completeGateEmail(EmailA, "careduel", NoPartner)

NextGate ==
  \/ WebhookGate
  \/ StartGate
  \/ PayGate
  \/ CompleteAnyGate
  \/ SyncGate

SpecGate == Init /\ [][NextGate]_vars

SpecPay == Init /\ [][NextPay]_vars

(* the webhook endpoint with signed and unsigned deliveries *)

CsUnpaid == Session("cs_unpaid", EmailA, EmailA, "lifetime_purchase", "basic", NoPartner, 0,
                    4900, "crowbar_master", "unpaid")

WebhookEvents ==
  {WebhookEvent("checkout.session.completed", CsD19, 1),
   WebhookEvent("checkout.session.completed", CsPro, 1),
   WebhookEvent("checkout.session.completed", Lp7, 1),
   WebhookEvent("checkout.session.completed", CsUnpaid, 1),
   WebhookEvent("checkout.session.expired", CsUnpaid, 2)}

\* the headers a sender can attach to a payload
Signatures(event) ==
  {Sign(WebhookSecret, event.id), Sign("whsec_other", event.id),
   Sign(WebhookSecret, <<"another payload">>), NoSignature}

NextWebhook == \E event \in WebhookEvents : \E sig \in Signatures(event) : handleWebhook(event, sig)

SpecWebhook == Init /\ [][NextWebhook]_vars

(* the credits API alone *)

EarnCredits == earnCredits(EmailA, 7, "careduel")

SpendAny ==
  \/ \E e \in Emails, n \in {-5, 0, 3, 5} : spendCredits(e, n, "careduel")
  \/ spendCredits(EmailA, 3, NoPartner)

NextCredits ==
  \/ EarnCredits
  \/ SpendAny

SpecCredits == Init /\ [][NextCredits]_vars

(* the clock *)

Days == {0, 1, 31}

\* the clock moves on to a later day
Tick ==
  /\ \E d \in Days : d > now /\ now' = d
  /\ UNCHANGED <<users, ledger, credits, referrals, stripe, last, ops, calls>>

(* the gate over several days, with sessions the gateway closes paid or unpaid *)

GateStart ==
  \/ \E origin \in {"careduel", "talentkonnect"}, legal \in LegalValues :
       startGate(EmailA, origin, legal, NoPartner)
  \/ startGate(EmailA, "access_pass", "true", "careduel")

GateSettle ==
  \E id \in GateSessionIds :
    \/ payGateSession(id)
    \/ closeGateSessionUnpaid(id)

GateComplete ==
  \/ \E id \in GateSessionIds, origin \in {NoPartner, "talentkonnect"},
        return_to \in {NoPartner, "ecoworldbuy"} :
       stripe[id] # NullSession /\ completeGateSession(stripe[id], origin, return_to)
  \/ \E return_to \in {NoPartner, "dashboard"} : completeGateEmail(EmailA, "careduel", return_to)

NextGateDay ==
  \/ GateStart
  \/ GateSettle
  \/ GateComplete
  \/ Tick

SpecGateDay == Init /\ [][NextGateDay]_vars

(* the bridge: purchases synced from a partner site over several days *)

BridgeDeliveries == {Delivery(CsElite, 1), Delivery(Lp7, 1)}

WebhookBridge == \E d \in BridgeDeliveries : handleSuccessfulPayment(d.session, d.event)

SyncBridge ==
  \E cents \in {4000, 5900}, sid \in {"br_1", NoSession}, unlock \in BOOLEAN :
    syncCheckout(RawA, "ecoworldbuy", cents, IF unlock THEN 0 ELSE 5, sid, NoKey, unlock)

NextBridge ==
  \/ SyncBridge
  \/ WebhookBridge
  \/ Tick

SpecBridge == Init /\ [][NextBridge]_vars

(* the bridge alone: every kind of sync-checkout request, sent again and again *)

SyncAny ==
  \E sid \in {"br_1", NoSession}, key \in {NoKey, "k1"}, cents \in {0, 4000},
     delta \in {0, 5}, unlock \in BOOLEAN :
    syncCheckout(RawA, "ecoworldbuy", cents, delta, sid, key, unlock)

NextSync == SyncAny

SpecSync == Init /\ [][NextSync]_vars

(* every endpoint that takes an email, called with the address as typed *)

TypedEmails == {EmailA, UpperA}

WebhookTyped == handleSuccessfulPayment(CsBasic, Evt(CsBasic, 1))

EarnTyped == \E e \in TypedEmails : earnCredits(e, 5, "careduel")

SpendTyped == \E e \in TypedEmails : spendCredits(e, 3, "careduel")

GateTyped ==
  \/ \E e \in TypedEmails : startGate(e, "careduel", "true", NoPartner)
  \/ \E id \in GateSessionIds : payGateSession(id)
  \/ \E id \in GateSessionIds :
       stripe[id] # NullSession /\ completeGateSession(stripe[id], NoPartner, NoPartner)
  \/ \E e \in TypedEmails : completeGateEmail(e, "careduel", NoPartner)

SyncTyped == syncCheckout(RawA, "careduel", 4900, 5, NoSession, NoKey, FALSE)

NextTyped ==
  \/ WebhookTyped
  \/ EarnTyped
  \/ SpendTyped
  \/ GateTyped
  \/ SyncTyped

SpecTyped == Init /\ [][NextTyped]_vars

(* two deliveries of the gateway in flight together, every store call succeeding *)

Completed(s, n) == WebhookEvent("checkout.session.completed", s, n)

RaceEvents == {Completed(CsD19, 1), Completed(Lp7, 1), Completed(Bu4200, 1)}

ArriveRace ==
  \E c \in {1, 2}, event \in RaceEvents :
    ArriveWebhook(c, event, Sign(WebhookSecret, event.id))

StepRace == \E c \in {1, 2} : PaymentCallStep(c)

NextRace ==
  \/ ArriveRace
  \/ StepRace

SpecRace == Init /\ [][NextRace]_vars

(* the same deliveries with forged signatures and failing store calls *)

ArriveAny ==
  \E c \in {1, 2}, event \in RaceEvents \cup {WebhookEvent("checkout.session.expired", CsD19, 2)} :
    \E sig \in {Sign(WebhookSecret, event.id), Sign("whsec_other", event.id)} :
      ArriveWebhook(c, event, sig)

StoreFails ==
  \E c \in {1, 2} :
    \/ UserUpsertFails(c)
    \/ PaymentLedgerFails(c)

NextFault ==
  \/ ArriveAny
  \/ StepRace
  \/ StoreFails

SpecFault == Init /\ [][NextFault]_vars

(* the credits API, one request after the other *)

CreditsRequests(c) ==
  \/ \E e \in TypedEmails, n \in {5, 7} : StartCredits(c, "earnCredits", e, n, "careduel")
  \/ \E n \in {0, 3} : StartCredits(c, "spendCredits", EmailA, n, NoPartner)

Quiet == \A c \in CallIds : calls[c].pc \in {"idle", "done"}

ArriveSeq == \E c \in CallIds : Quiet /\ CreditsRequests(c)

StepCredits == \E c \in CallIds : CreditsCallStep(c)

NextSeq ==
  \/ ArriveSeq
  \/ StepCredits

SpecSeq == Init /\ [][NextSeq]_vars

(* two credits requests in flight together, then two payments of another      *)
(* customer in flight together; the two pairs touch different users rows, so  *)
(* the payments are let in once the credits requests are answered            *)

ArriveCredits ==
  \/ StartCredits(1, "earnCredits", EmailA, 5, "careduel")
  \/ StartCredits(2, "spendCredits", EmailA, 3, "careduel")

ArrivePayments ==
  /\ calls[1].pc = "done"
  /\ calls[2].pc = "done"
  /\ \/ ArriveWebhook(3, Completed(CsPro, 1), Sign(WebhookSecret, Evt(CsPro, 1)))
     \/ ArriveWebhook(4, Completed(CsGold, 1), Sign(WebhookSecret, Evt(CsGold, 1)))

StepPayments ==
  \E c \in {3, 4} :
    \/ LedgerCheckStep(c)
    \/ UserSelectStep(c)
    \/ UserUpsertStep(c)
    \/ SpendEnsureStep(c)
    \/ SpendSelectStep(c)
    \/ SpendUpdateStep(c)
    \/ PaymentCreditsStep(c)
    \/ PaymentLedgerStep(c)
    \/ PaymentReferralStep(c)

NextLost ==
  \/ ArriveCredits
  \/ StepCredits
  \/ ArrivePayments
  \/ StepPayments

SpecLost == Init /\ [][NextLost]_vars

(* two payments of one customer in flight together, then the bridge syncing   *)
(* that customer's purchases over several days, its closing update taken or   *)
(* refused by the store                                                       *)

ArriveBackfill ==
  \/ ArriveWebhook(1, Completed(CsPro, 1), Sign(WebhookSecret, Evt(CsPro, 1)))
  \/ ArriveWebhook(2, Completed(CsGold, 1), Sign(WebhookSecret, Evt(CsGold, 1)))

StepBackfill ==
  \E c \in {1, 2} :
    \/ LedgerCheckStep(c)
    \/ UserSelectStep(c)
    \/ UserUpsertStep(c)
    \/ SpendEnsureStep(c)
    \/ SpendSelectStep(c)
    \/ SpendUpdateStep(c)
    \/ PaymentCreditsStep(c)
    \/ PaymentLedgerStep(c)
    \/ PaymentReferralStep(c)

SyncBackfill ==
  /\ Quiet
  /\ \E updated \in BOOLEAN :
       syncCheckoutWith(EmailB, "careduel", 1000, 5, NoSession, NoKey, FALSE, updated)

TickBackfill == Quiet /\ Tick

NextBackfill ==
  \/ ArriveBackfill
  \/ StepBackfill
  \/ SyncBackfill
  \/ TickBackfill

SpecBackfill == Init /\ [][NextBackfill]_vars

(* three purchases in flight together, two of them by one customer, each     *)
(* ending in ensureReferralCodeForUser                                        *)

ArriveCodes ==
  \/ ArriveWebhook(1, Completed(CsD19, 1), Sign(WebhookSecret, Evt(CsD19, 1)))
  \/ ArriveWebhook(2, Completed(CsPro, 1), Sign(WebhookSecret, Evt(CsPro, 1)))
  \/ ArriveWebhook(3, Completed(CsBasic, 1), Sign(WebhookSecret, Evt(CsBasic, 1)))

StepCodes ==
  \E c \in {1, 2, 3} :
    \/ LedgerCheckStep(c)
    \/ UserSelectStep(c)
    \/ UserUpsertStep(c)
    \/ SpendEnsureStep(c)
    \/ SpendSelectStep(c)
    \/ SpendUpdateStep(c)
    \/ PaymentCreditsStep(c)
    \/ PaymentLedgerStep(c)
    \/ ReferralSelectStep(c)
    \/ ReferralCheckStep(c)
    \/ ReferralUpdateStep(c)

NextCodes ==
  \/ ArriveCodes
  \/ StepCodes

SpecCodes == Init /\ [][NextCodes]_vars

(* the gate called with every origin a request body can name *)

RewardOrigins == {"careduel", "access_pass"}

StartReward == \E origin \in RewardOrigins : startGate(EmailA, origin, "true", NoPartner)

CompleteReward ==
  \/ \E id \in GateSessionIds, origin \in {NoPartner, "access_pass"} :
       stripe[id] # NullSession /\ completeGateSession(stripe[id], origin, NoPartner)
  \/ \E origin \in RewardOrigins : completeGateEmail(EmailA, origin, NoPartner)

NextReward ==
  \/ StartReward
  \/ PayGate
  \/ CompleteReward
  \/ Tick

SpecReward == Init /\ [][NextReward]_vars

(* a limited user asks for the balance upgrade, pays it and buys further     *)
(* passes, in any order; the passes are sessions of earlier checkouts        *)

UpgradeDeliveries == {Delivery(Lp7, 1), Delivery(Lp7c, 1), Delivery(CsD19, 1)}

WebhookUpgrade ==
  \E d \in UpgradeDeliveries : handleSuccessfulPayment(d.session, d.event)

CreateCheckout ==
  \/ createCheckoutSession(RawA, NoTier, "balance_upgrade", NoPartner, 0, "none", FALSE)
  \/ \E amt \in {9, 5} :
       createCheckoutSession(EmailA, NoTier, "limited_pass", "ecoworldbuy", amt, "none", FALSE)

NextUpgrade ==
  \/ WebhookUpgrade
  \/ CreateCheckout
  \/ PayGate
  \/ WebhookGate

SpecUpgrade == Init /\ [][NextUpgrade]_vars

(* pass holders at the gate: startGate requests in flight together, the      *)
(* customer paying, completeGate, the clock                                  *)

GateRaceSlots == {1, 2, 3}

ArriveGateRace ==
  \E c \in GateRaceSlots, origin \in {"talentkonnect", "access_pass"},
     legal \in {"true", "undefined"} :
    ArriveStartGate(c, EmailA, origin, legal, NoPartner)

StepGateRace == \E c \in GateRaceSlots : GateCallStep(c)

CompleteGateRace ==
  \E id \in GateSessionIds :
    stripe[id] # NullSession /\ completeGateSession(stripe[id], NoPartner, NoPartner)

TickGateRace == Quiet /\ Tick

NextGateRace ==
  \/ ArriveGateRace
  \/ StepGateRace
  \/ PayGate
  \/ CompleteGateRace
  \/ TickGateRace

SpecGateRace == Init /\ [][NextGateRace]_vars

(* limited passes bought one after another: four purchases reconciled whole, *)
(* and one delivery reconciled store call by store call                      *)

PassIds == {"lp_a", "lp_b", "lp_c", "lp_d"}

PassPurchases == {LimitedPass(id, EmailA, "ecoworldbuy", 12) : id \in PassIds}

WebhookPasses == \E s \in PassPurchases : Quiet /\ handleSuccessfulPayment(s, Evt(s, 1))

PassEvents == {Completed(Lp7, 1), Completed(Bu3500, 1), Completed(CsD19, 1)}

ArrivePasses == \E event \in PassEvents : ArriveWebhook(1, event, Sign(WebhookSecret, event.id))

StepPasses == PaymentCallStep(1)

NextPasses ==
  \/ WebhookPasses
  \/ ArrivePasses
  \/ StepPasses

SpecPasses == Init /\ [][NextPasses]_vars

(* the profile route, for users the credits API created *)

EarnProfile == \E e \in Emails : earnCredits(e, 5, "careduel")

UpdateAnyProfile ==
  \E e \in {UpperA, EmailB}, profile \in BOOLEAN, kyc \in BOOLEAN : updateProfile(e, profile, kyc)

NextProfile ==
  \/ EarnProfile
  \/ UpdateAnyProfile

SpecProfile == Init /\ [][NextProfile]_vars

(* referral codes: two purchasers get their codes, others apply them *)

ReferralDeliveries == {Delivery(CsD19, 1), Delivery(CsPro, 1)}

WebhookReferral ==
  \E d \in ReferralDeliveries : handleSuccessfulPayment(d.session, d.event)

RawCodes == {<<"CWB-AAAAAA">>, <<" ", "CWB-BBBBBB", " ">>, <<"CWB-ZZZZZZ">>, <<" ">>}

ApplyReferral ==
  \E e \in {EmailB, UpperA, EmailC, NoAtEmail}, c \in RawCodes : applyReferralCode(e, c)

ApplyReferralInline ==
  \E e \in {EmailB, EmailC}, c \in RawCodes : applyReferralCodeInline(e, c)

NextReferral ==
  \/ WebhookReferral
  \/ ApplyReferral
  \/ ApplyReferralInline

SpecReferral == Init /\ [][NextReferral]_vars

(* ======================================================================= *)
(* Claims about handleSuccessfulPayment, checked under SpecPay.             *)
(* A step of the handler is read off last' (the request just answered); the *)
(* unprimed variables are the tables the handler found.                     *)
(* ======================================================================= *)

PaymentStep == last'.op = "handleSuccessfulPayment" /\ ops' = ops + 1

NoWrite == users' = users /\ ledger' = ledger /\ credits' = credits

AlreadyProcessed == Result(TRUE, TRUE, "none")

\* the delivery is not short-circuited by the stripe_event_id lookup
FreshEvent == \A r \in Rows(ledger) : r.stripe_event_id # last'.event

StepEmail ==
  LET s == last'.session
  IN NormEmail(IF s.user_email # NoEmail THEN s.user_email ELSE s.customer_email)

AppendsOneRow == Len(ledger') = Len(ledger) + 1 /\ SubSeq(ledger', 1, Len(ledger)) = ledger

NewRow == ledger'[Len(ledger')]

CreditsBefore(e) == IF users[e].exists THEN users[e].total_credits ELSE 0

\* the same session and the same non-null event id, run twice in a row
C1_Redelivery ==
  /\ PaymentStep
  /\ last.op = "handleSuccessfulPayment"
  /\ last'.session = last.session
  /\ last'.event = last.event
  /\ last.event # NoEvent

\* C1 as stated: the second of two runs with the same non-null event id writes
\* nothing and always reports success as already processed.
C1_Original ==
  [][C1_Redelivery => NoWrite /\ last'.result = AlreadyProcessed]_vars

\* C1 (amended): the second of two consecutive runs with the same non-null event
\* id inserts no ledger or credits row and changes no users field; it reports
\* success as already processed when the first run succeeded, and repeats the
\* first run's failure when the first run failed validation.
C1_RedeliveryIsNoOp ==
  [][C1_Redelivery =>
       /\ NoWrite
       /\ last.result.success => last'.result = AlreadyProcessed
       /\ ~ last.result.success => last'.result = last.result]_vars

\* three runs lead to a successful upgrade, the fourth redelivers its event
C1_Witness ==
  /\ ops = 4
  /\ last.op = "handleSuccessfulPayment"
  /\ last.result = AlreadyProcessed
  /\ last.session.payment_type = "balance_upgrade"

\* a ledger row of this session under another event id: the session was processed
C2_SessionRedelivery ==
  /\ PaymentStep
  /\ StepEmail \in Emails
  /\ \E r \in Rows(ledger) :
       /\ r.stripe_session_id = last'.session.id
       /\ r.stripe_event_id # last'.event

\* C2: a session already processed under one event id and delivered again under a
\* different event id is a no-op: no new ledger row, no new credits row, and
\* total_credits, total_spent and limited_paid_amount are unchanged.
C2_SessionIdempotent ==
  [][C2_SessionRedelivery =>
       /\ ledger' = ledger
       /\ credits' = credits
       /\ users'[StepEmail].total_credits = users[StepEmail].total_credits
       /\ users'[StepEmail].total_spent = users[StepEmail].total_spent
       /\ users'[StepEmail].limited_paid_amount = users[StepEmail].limited_paid_amount]_vars

C5_Mismatch ==
  /\ PaymentStep
  /\ last'.session.payment_type = "balance_upgrade"
  /\ StepEmail \in Emails
  /\ users[StepEmail].exists
  /\ users[StepEmail].access_mode = "limited"
  /\ last'.session.amount_total # (49 - users[StepEmail].limited_paid_amount) * 100
  /\ FreshEvent

\* C5: a balance_upgrade delivery for a limited user whose paid amount in cents
\* differs from (49 - limited_paid_amount) * 100 returns a failure and writes
\* nothing to users, credits_ledger or credits.
C5_MismatchRejected ==
  [][C5_Mismatch => ~ last'.result.success /\ NoWrite]_vars

C5_Witness ==
  /\ last.op = "handleSuccessfulPayment"
  /\ last.session.amount_total \in {3499, 3501}
  /\ last.result.error = "Balance mismatch"
  /\ users[EmailA].access_mode = "limited"
  /\ users[EmailA].limited_paid_amount = 14

C6_ExactUpgrade ==
  /\ PaymentStep
  /\ last'.session.payment_type = "balance_upgrade"
  /\ StepEmail \in Emails
  /\ users[StepEmail].exists
  /\ users[StepEmail].access_mode = "limited"
  /\ last'.session.amount_total = (49 - users[StepEmail].limited_paid_amount) * 100
  /\ FreshEvent

\* C6: an exactly matching balance_upgrade for a limited user with c credits
\* writes a ledger row with delta max(49 - c, 0), leaves total_credits at
\* max(c, 49), sets access_mode to lifetime and all three partner flags.
C6_UpgradeToTarget ==
  [][C6_ExactUpgrade =>
       LET c == users[StepEmail].total_credits
       IN /\ last'.result.success
          /\ AppendsOneRow
          /\ NewRow.email = StepEmail
          /\ NewRow.stripe_session_id = last'.session.id
          /\ NewRow.delta = (IF c < 49 THEN 49 - c ELSE 0)
          /\ users'[StepEmail].total_credits = (IF c < 49 THEN 49 ELSE c)
          /\ users'[StepEmail].access_mode = "lifetime"
          /\ users'[StepEmail].access =
               {"talentkonnect", "careduel", "ecoworldbuy"}]_vars

\* an upgrade by a user who already held credits: the row records delta 0
C6_Witness ==
  /\ last.op = "handleSuccessfulPayment"
  /\ last.session.payment_type = "balance_upgrade"
  /\ last.result.success /\ ~ last.result.alreadyProcessed
  /\ ledger[Len(ledger)].delta = 0
  /\ users[EmailA].total_credits = 49
  /\ users[EmailA].access_mode = "lifetime"

C7_LimitedStep ==
  /\ PaymentStep
  /\ last'.session.payment_type = "limited_pass"
  /\ StepEmail \in Emails

C7_Valid ==
  /\ last'.session.partner_key # NoPartner
  /\ last'.session.limited_paid_amount \in {7, 9, 12}

\* C7: a limited_pass delivery of amount a in {7, 9, 12} for partner p leaves
\* total_credits unchanged, writes a ledger row with delta 0, adds a to
\* limited_paid_amount, adds p to the partner-access set and sets
\* upgrade_balance_amount to max(49 - new total, 0); without a partner key or with
\* another amount it fails and writes nothing.
C7_LimitedPass ==
  [][C7_LimitedStep =>
       LET e == StepEmail
           a == last'.session.limited_paid_amount
           p == last'.session.partner_key
           before == IF users[e].exists THEN users[e] ELSE NewUserRow
           paid == before.limited_paid_amount + a
       IN /\ (C7_Valid /\ FreshEvent) =>
               /\ last'.result.success
               /\ users'[e].total_credits = before.total_credits
               /\ AppendsOneRow
               /\ NewRow.delta = 0
               /\ NewRow.email = e
               /\ users'[e].limited_paid_amount = paid
               /\ users'[e].limited_partner = before.limited_partner \cup {p}
               /\ p \in users'[e].access
               /\ users'[e].upgrade_balance_amount = (IF paid < 49 THEN 49 - paid ELSE 0)
          /\ ~ C7_Valid => ~ last'.result.success /\ NoWrite]_vars

\* the second pass of a user: 7 + 7
C7_Witness ==
  /\ last.op = "handleSuccessfulPayment"
  /\ last.session.id = "lp_7c"
  /\ last.result.success /\ ~ last.result.alreadyProcessed
  /\ users[EmailA].limited_paid_amount = 14
  /\ users[EmailA].upgrade_balance_amount = 35
  /\ users[EmailA].limited_partner = {"talentkonnect", "careduel"}

C8_FirstPurchase ==
  /\ PaymentStep
  /\ last'.session.payment_type = "lifetime_purchase"
  /\ last'.session.membership_tier \in {"discount19", "basic", "pro", "elite"}
  /\ StepEmail \in Emails
  /\ ~ users[StepEmail].exists

\* C8: for a user with no prior row, one paid lifetime_purchase of tier t leaves
\* exactly one ledger row for the email, with the tier's grant as delta and reason
\* membership_purchase_<t>, and a user row with total_credits = grant,
\* membership_tier = t, crowbar_access and total_spent = the amount paid.
C8_NewUserPurchase ==
  [][C8_FirstPurchase =>
       LET e == StepEmail
           tr == last'.session.membership_tier
           grant == IF tr = "elite" THEN 500 ELSE 49
           mine == RowsOfEmail(ledger', e)
       IN /\ Len(mine) = 1
          /\ mine[1].delta = grant
          /\ mine[1].reason = <<"membership_purchase", tr>>
          /\ users'[e].exists
          /\ users'[e].total_credits = grant
          /\ users'[e].membership_tier = tr
          /\ users'[e].crowbar_access
          /\ users'[e].total_spent = last'.session.amount_total]_vars

C8_Witness ==
  /\ ops = 1
  /\ last.session.id = "cs_basic"
  /\ last.result.success
  /\ RowsOfEmail(ledger, EmailA) =
       <<LedgerRow(EmailA, 49, <<"membership_purchase", "basic">>, "stripe_payment",
                   <<"cs_basic", 1>>, "cs_basic", 4900, 0)>>
  /\ users[EmailA].total_credits = 49
  /\ users[EmailA].total_spent = 4900

C9_LifetimeStep ==
  /\ PaymentStep
  /\ last'.session.payment_type \in {"lifetime_purchase", NoType}
  /\ StepEmail \in Emails
  /\ FreshEvent

C10_NoIdentity ==
  /\ PaymentStep
  /\ NormEmail(last'.session.user_email) = <<>>
  /\ NormEmail(last'.session.customer_email) = <<>>

\* C10: a session carrying neither metadata.user_email nor customer_email (or
\* only blank ones) makes handleSuccessfulPayment return a failure with no write
\* to users, credits_ledger or credits.
C10_MissingIdentity ==
  [][C10_NoIdentity => ~ last'.result.success /\ NoWrite]_vars

C10_Witness ==
  /\ last.op = "handleSuccessfulPayment"
  /\ last.session.id = "cs_anon"
  /\ last.result = Result(FALSE, FALSE, "No email")
  /\ ops = 2
  /\ Len(ledger) = 1

(* ======================================================================= *)
(* Claims about the ledger as a whole.                                      *)
(* ======================================================================= *)

GrantRowsOfSession(sid) ==
  {i \in 1..Len(ledger) : ledger[i].stripe_session_id = sid /\ ledger[i].delta >= 1}

\* C3: in every reachable state credits_ledger holds at most one row with
\* delta >= 1 for any stripe_session_id, whatever mix of webhook deliveries, gate
\* completions and bridge sync-checkouts processed the session.
C3_OneGrantPerSession ==
  \A i \in 1..Len(ledger) :
    ledger[i].stripe_session_id # NoSession =>
      Cardinality(GrantRowsOfSession(ledger[i].stripe_session_id)) <= 1

\* C4: after any sequence of completed operations every user's total_credits
\* equals the sum of delta over the ledger rows carrying that user's email.
C4_BalanceIsLedgerSum ==
  \A e \in UserKeys :
    users[e].exists => users[e].total_credits = SumDelta(RowsOfEmail(ledger, e))

(* ======================================================================= *)
(* Claims about applyReferralCode, checked under SpecReferral.              *)
(* ======================================================================= *)

ReferralStep == last'.op = "applyReferralCode" /\ ops' = ops + 1

\* the users holding the code the request names
CodeOwners == {o \in UserKeys : users[o].exists /\ users[o].referral_code = last'.arg.code}

\* a well-formed first application of somebody else's code
C11_FirstApplication ==
  /\ ReferralStep
  /\ IncludesAt(last'.email)
  /\ last'.arg.code # NoCode
  /\ Cardinality(CodeOwners) = 1
  /\ \A o \in CodeOwners : LowerEmail(o) # last'.email
  /\ \A r \in Rows(referrals) : r.referred_email # last'.email

\* C11: when a referred email with no referral row applies an existing code owned
\* by a different user, the referrer's total_credits grows by exactly 25, one
\* ledger row with reason referral_signup and delta 25 is appended for the
\* referrer, and one referrals row is recorded for the referred email.
C11_ReferralBonus ==
  [][C11_FirstApplication =>
       \A o \in CodeOwners :
         /\ users'[o].total_credits = users[o].total_credits + 25
         /\ AppendsOneRow
         /\ NewRow.email = LowerEmail(o)
         /\ NewRow.reason = <<"referral_signup">>
         /\ NewRow.delta = 25
         /\ Len(referrals') = Len(referrals) + 1
         /\ referrals'[Len(referrals')].referred_email = last'.email]_vars

C12_AlreadyReferred ==
  /\ ReferralStep
  /\ \E r \in Rows(referrals) : r.referred_email = last'.email

ReferralGrants == {i \in 1..Len(ledger) : ledger[i].reason = <<"referral_signup">>}

\* C12: once a referrals row exists for a referred email, every later
\* applyReferralCode request by that email, for any code, is rejected and writes
\* no referrals row, no users field and no ledger row; a referred email never
\* has two referrals rows, and there are never more +25 grants than referrals.
C12_SecondApplicationRejected ==
  /\ [][C12_AlreadyReferred =>
          /\ ~ last'.result.success
          /\ last'.http \in {400, 404}
          /\ NoWrite
          /\ referrals' = referrals]_vars
  /\ [](/\ \A i, j \in 1..Len(referrals) :
              referrals[i].referred_email = referrals[j].referred_email => i = j
         /\ Cardinality(ReferralGrants) <= Len(referrals))

\* the referred email comes back with the other purchaser's code
C12_Witness ==
  /\ last.op = "applyReferralCode"
  /\ last.result.error = "Referral code already used for this account"
  /\ Len(referrals) = 1
  /\ referrals[1].referred_email = last.email
  /\ referrals[1].referral_code # last.arg.code

(* ======================================================================= *)
(* Claims about the bridge's auto-upgrade, checked under SpecBridge.        *)
(* autoUpgradeIfEligible runs at the end of every sync-checkout that is not  *)
(* answered as already processed.                                           *)
(* ======================================================================= *)

SyncStep == last'.op = "syncCheckout" /\ ops' = ops + 1 /\ last'.result = Ok

BonusRows(L, e) ==
  {i \in 1..Len(L) : L[i].email = e /\ L[i].reason = <<"auto_upgrade_bonus">>}

\* max(rolling 30-day amount_usd, total_spent), in cents, as the run saw it
EffectiveSpend(e) ==
  LET rolling == RollingSpend(ledger', e, now)
      spent == users'[e].total_spent
  IN IF rolling >= spent THEN rolling ELSE spent

\* C13: over any sequence of autoUpgradeIfEligible runs for an email, the first
\* run with effective spend >= 99 dollars and no auto_upgrade_bonus row grants
\* exactly +49 with one such row and sets full_access and auto_upgraded_at; a run
\* that finds the row, or an effective spend below 99, grants nothing; the email
\* never has more than one auto_upgrade_bonus row.
C13_AutoUpgradeOnce ==
  /\ [][SyncStep =>
          LET e == last'.email
              before == Cardinality(BonusRows(ledger, e))
              granted == Cardinality(BonusRows(ledger', e)) - before
          IN /\ (EffectiveSpend(e) >= 9900 /\ before = 0) =>
                  /\ granted = 1
                  /\ NewRow.reason = <<"auto_upgrade_bonus">>
                  /\ NewRow.delta = 49
                  /\ users'[e].full_access
                  /\ users'[e].auto_upgraded_at
             /\ (EffectiveSpend(e) < 9900 \/ before >= 1) => granted = 0
             /\ users'[e].total_credits =
                  CreditsBefore(e) + last'.arg.amount + 49 * granted]_vars
  /\ [](\A e \in UserKeys : Cardinality(BonusRows(ledger, e)) <= 1)

\* a run after the grant, with full_access taken away in between by a limited
\* pass: it restores full_access and grants nothing
C13_Witness ==
  /\ last.op = "syncCheckout"
  /\ last.result = Ok
  /\ \E i \in BonusRows(ledger, EmailA) :
       \E j \in (i + 1)..Len(ledger) : ledger[j].reason = <<"payment.limited_pass", "talentkonnect", "7">>
  /\ users[EmailA].full_access
  /\ Cardinality(BonusRows(ledger, EmailA)) = 1

(* ======================================================================= *)
(* Claims about the profile-completion bonus, checked under SpecProfile.    *)
(* ======================================================================= *)

ProfileStep == last'.op = "updateProfile" /\ ops' = ops + 1

RewardRows == {i \in 1..Len(ledger) : ledger[i].reason = <<"reward">>}

\* C14: over any sequence of update-profile requests for a user the +20 bonus is
\* granted at most once: only by a request after which every profile field and
\* every KYC field is populated while profile_completed was not yet true; the
\* grant sets profile_completed, and no later request changes total_credits or
\* adds a ledger row.
C14_ProfileBonusOnce ==
  /\ [][ProfileStep =>
          IF ~ last'.result.success THEN NoWrite
          ELSE LET e == last'.email
                   grant == /\ users'[e].profile_fields
                            /\ users'[e].kyc_fields
                            /\ ~ users[e].profile_completed
               IN /\ users'[e].total_credits =
                       users[e].total_credits + (IF grant THEN 20 ELSE 0)
                  /\ grant => users'[e].profile_completed
                  /\ ~ grant =>
                       /\ ledger' = ledger
                       /\ users'[e].profile_completed = users[e].profile_completed
                  /\ Len(ledger') <= Len(ledger) + 1]_vars
  /\ [](Cardinality(RewardRows) <=
           Cardinality({e \in UserKeys : users[e].profile_completed}))

\* a request that clears a field after the bonus was paid: the bonus stays paid
\* once, on top of two calls to the credits API
C14_Witness ==
  /\ last.op = "updateProfile"
  /\ last.result.success
  /\ users[EmailA].profile_completed
  /\ ~ users[EmailA].profile_fields
  /\ users[EmailA].total_credits = 5 + 20

(* ======================================================================= *)
(* Claims about the gate, checked under SpecGateDay.                        *)
(* ======================================================================= *)

StartStep == last'.op = "startGate" /\ ops' = ops + 1

GateRejected(error) ==
  /\ ~ last'.result.success
  /\ last'.result.error = error
  /\ last'.http = 400
  /\ NoWrite

\* C15 as stated: every legal_accept other than the exact word 'true' is refused
C15_Original ==
  [][(/\ StartStep
      /\ last'.arg.origin \in {"talentkonnect", "careduel", "ecoworldbuy"}
      /\ ~ hasAccessPass(credits, last'.email)
      /\ last'.arg.legal_accept # "true")
       => GateRejected("legal_accept is required") /\ stripe' = stripe]_vars

\* C15 (amended): startGate for a valid partner by a user without an access pass,
\* with legal_accept absent or not the word true in any letter case, is rejected
\* with the legal-acceptance error; no payment session is created and no users,
\* credits or ledger row is written.
C15_LegalAcceptanceRequired ==
  [][(/\ StartStep
      /\ last'.arg.origin \in {"talentkonnect", "careduel", "ecoworldbuy"}
      /\ ~ hasAccessPass(credits, last'.email)
      /\ last'.arg.legal_accept \notin {"true", "TRUE"})
       => GateRejected("legal_accept is required") /\ stripe' = stripe]_vars

C15_Witness ==
  /\ last.op = "startGate"
  /\ last.arg.origin = "careduel"
  /\ last.arg.legal_accept = "undefined"
  /\ last.result.error = "legal_accept is required"
  /\ \A id \in GateSessionIds : stripe[id] = NullSession
  /\ ledger = <<>>

\* a gate request of a user who held the pass when it arrived
C16_PassHolder ==
  /\ last'.op \in {"startGate", "completeGate"}
  /\ ops' = ops + 1
  /\ last'.arg.origin \in {"talentkonnect", "careduel", "ecoworldbuy"}
  /\ hasAccessPass(credits, last'.email)

RewardsOfDay(L, e, p, d) ==
  {i \in 1..Len(L) :
     /\ L[i].email = e
     /\ L[i].origin_site = p
     /\ L[i].reason = <<"action.rewarded">>
     /\ L[i].created_at = d}

PartnerCredit(p) == IF p = "careduel" THEN 3 ELSE 7

\* access-pass rows the step appended
NewPassRows ==
  {i \in (Len(ledger) + 1)..Len(ledger') : ledger'[i].reason = <<"checkout.session.completed">>}

\* one reward row for the day after the request, paid by the first request only
C16_OneRewardToday ==
  LET e == last'.email
      p == last'.arg.origin
      before == Cardinality(RewardsOfDay(ledger, e, p, now))
  IN /\ before <= 1
     /\ Cardinality(RewardsOfDay(ledger', e, p, now)) = 1
     /\ users'[e].total_credits - 49 * Cardinality(NewPassRows) =
          CreditsBefore(e) + (IF before = 0 THEN PartnerCredit(p) ELSE 0)

\* the return key the complete request resolves: its own, else the session's
C16_ReturnKey ==
  IF last'.arg.return_to # NoPartner THEN last'.arg.return_to
  ELSE IF last'.session.return_to # NoPartner THEN last'.session.return_to
  ELSE last'.arg.origin

CompleteSessionStep ==
  /\ last'.op = "completeGate"
  /\ ops' = ops + 1
  /\ last'.session.id # NoSession

PassRows(L, sid) ==
  {i \in 1..Len(L) :
     L[i].stripe_session_id = sid /\ L[i].reason = <<"checkout.session.completed">>}

RECURSIVE RewardSum(_, _, _)
RewardSum(L, from, to) ==
  IF from > to THEN 0
  ELSE (IF L[from].reason = <<"action.rewarded">> THEN L[from].delta ELSE 0)
       + RewardSum(L, from + 1, to)

\* C17: repeated completeGate calls with the same paid session id award the
\* access pass once: the first adds 49 credits, one ledger row of the session and
\* one total_spent bump of the session amount; later calls add no access-pass row
\* and change total_credits only by a partner reward and total_spent not at all.
C17_PassOncePerSession ==
  [][(CompleteSessionStep /\ last'.result.success /\ last'.session.payment_status = "paid") =>
       LET s == last'.session
           e == last'.email
           before == Cardinality(PassRows(ledger, s.id))
           spentBefore == IF users[e].exists THEN users[e].total_spent ELSE 0
           reward == RewardSum(ledger', Len(ledger) + 1, Len(ledger'))
       IN /\ Cardinality(PassRows(ledger', s.id)) = 1
          /\ before = 0 =>
               /\ users'[e].total_credits = CreditsBefore(e) + 49 + reward
               /\ users'[e].total_spent = spentBefore + s.amount_total
          /\ before = 1 =>
               /\ users'[e].total_credits = CreditsBefore(e) + reward
               /\ users'[e].total_spent = spentBefore
               /\ Cardinality(NewPassRows) = 0]_vars

\* the session completed again on a later day: a second partner reward, no
\* second access pass
C17_Witness ==
  /\ last.op = "completeGate"
  /\ last.session.id = "gs_1"
  /\ last.result.success
  /\ now = 1
  /\ Len(ledger) = 3
  /\ ledger[1].reason = <<"checkout.session.completed">>
  /\ ledger[1].created_at = 0
  /\ ledger[3].created_at = 1
  /\ users[EmailA].total_credits = 49 + 3 + 3
  /\ users[EmailA].total_spent = 4900
  /\ stripe["gs_2"] = NullSession

\* C18: completeGate with a session id awards only if the gateway reports
\* payment_status paid; for every other session it fails with session_not_paid
\* and writes no users, credits or ledger row.
C18_PaidOnly ==
  [][(CompleteSessionStep /\ last'.session.payment_status # "paid") =>
       GateRejected("session_not_paid")]_vars

(* ======================================================================= *)
(* Claims about the credits API, checked under SpecCredits.                 *)
(* ======================================================================= *)

\* a spend request carrying a non-zero integer amount
SpendStep == last'.op = "spendCredits" /\ ops' = ops + 1 /\ last'.arg.amount # 0

\* C19: for every integer amount n, positive or negative, spendCredits records a
\* ledger row with delta -|n| and reason api.spend and changes total_credits by
\* exactly -|n|; a spend never increases total_credits.
C19_SpendIsNegative ==
  [][SpendStep =>
       LET n == last'.arg.amount
           e == last'.email
           magnitude == IF n < 0 THEN 0 - n ELSE n
       IN /\ last'.result.success
          /\ AppendsOneRow
          /\ NewRow.email = e
          /\ NewRow.delta = 0 - magnitude
          /\ NewRow.reason = <<"api.spend">>
          /\ users'[e].total_credits = CreditsBefore(e) - magnitude
          /\ users'[e].total_credits < CreditsBefore(e)]_vars

\* a negative input is spent like the positive one
C19_Witness ==
  /\ last.op = "spendCredits"
  /\ last.arg.amount = -5
  /\ ledger[Len(ledger)].delta = -5
  /\ users[EmailA].total_credits = 7 - 5

(* ======================================================================= *)
(* Claims about bumpUserCredits run call after call, checked under SpecSeq. *)
(* ======================================================================= *)

\* the delta of request c if it is a credits request for e that ran to its end
BumpedBy(c, e) ==
  IF /\ calls[c].kind \in CreditsKinds
     /\ calls[c].email = e
     /\ calls[c].responses = <<200>>
  THEN calls[c].delta ELSE 0

\* d1 + d2 + ... over the completed bumpUserCredits calls for e
BumpedTotal(e) == BumpedBy(1, e) + BumpedBy(2, e) + BumpedBy(3, e) + BumpedBy(4, e)

BumpedOnce(e) ==
  \E c \in CallIds :
    calls[c].kind \in CreditsKinds /\ calls[c].email = e /\ calls[c].responses = <<200>>

\* C24: for a user whose total_credits is c (0 with no row), bumpUserCredits(d1)
\* followed, after it has completed, by bumpUserCredits(d2) leaves total_credits
\* = c + d1 + d2, and the users row exists after the first call. Stated over
\* every run of completed calls: between calls, total_credits is the sum of the
\* deltas of the calls completed so far.
C24_SequentialBumps ==
  \A e \in UserKeys :
    Quiet =>
      /\ BumpedOnce(e) => users[e].exists
      /\ (IF users[e].exists THEN users[e].total_credits ELSE 0) = BumpedTotal(e)

\* earn 5 then spend 3 for a user with no row, and a third call on top of that
C24_Witness ==
  /\ Quiet
  /\ calls[1].kind = "earnCredits" /\ calls[1].email = EmailA /\ calls[1].delta = 5
  /\ calls[2].kind = "spendCredits" /\ calls[2].delta = -3
  /\ calls[3].kind = "earnCredits" /\ calls[3].email = EmailA /\ calls[3].delta = 7
  /\ calls[4].kind = "none"
  /\ users[EmailA].total_credits = 5 - 3 + 7

(* ======================================================================= *)
(* Claims about bumps in flight together, checked under SpecLost.           *)
(* ======================================================================= *)

BothDone(c, d) == calls[c].pc = "done" /\ calls[d].pc = "done"

LedgerRowsOf(e) == Len(RowsOfEmail(ledger, e))

\* C28: two bumpUserCredits calls for the same email with deltas d1 and d2 whose
\* read and write steps interleave can both complete with total_credits equal to
\* prior + d1 or prior + d2 instead of prior + d1 + d2, with both ledger rows
\* present; the same holds for bumpUserSpend and total_spent. Stated as what
\* two completed calls can leave (the sum, or either delta alone, never anything
\* else, the two ledger rows always there); that a lost update is among the
\* outcomes is C28_Witness.
C28_LostUpdateOutcomes ==
  /\ BothDone(1, 2) =>
       /\ users[EmailA].total_credits \in
            {calls[1].delta + calls[2].delta, calls[1].delta, calls[2].delta}
       /\ LedgerRowsOf(EmailA) = 2
  /\ BothDone(3, 4) =>
       /\ users[EmailB].total_spent \in
            {CallSession(3).amount_total + CallSession(4).amount_total,
             CallSession(3).amount_total, CallSession(4).amount_total}
       /\ LedgerRowsOf(EmailB) = 2

\* both pairs answered, the spend of 3 credits lost and the payment of $99 lost
C28_Witness ==
  /\ BothDone(1, 2)
  /\ BothDone(3, 4)
  /\ calls[1].responses = <<200>> /\ calls[2].responses = <<200>>
  /\ users[EmailA].total_credits = 5
  /\ SumDelta(RowsOfEmail(ledger, EmailA)) = 5 - 3
  /\ calls[3].result.success /\ calls[4].result.success
  /\ users[EmailB].total_spent = 4900
  /\ LedgerRowsOf(EmailB) = 2

(* ======================================================================= *)
(* Claims about two deliveries in flight, checked under SpecRace.           *)
(* ======================================================================= *)

\* request c gets past the stripe_event_id lookup in this step
PassesCheck(c) == ~ calls[c].passed /\ calls'[c].passed

\* both requests carry the same event of the same session
SameDelivery == calls[1].kind = "handleWebhook" /\ calls[1].event = calls[2].event

\* what the session's tier grants
SessionGrant(s) == IF SafeTier(s.membership_tier) = "elite" THEN 500 ELSE 49

\* C27: when two handleSuccessfulPayment invocations for the same never-seen
\* session and event id interleave at store-call granularity, a state is
\* reachable in which both pass the existence check and total_credits ends
\* increased by twice the grant. Stated as: an invocation passes the check only
\* while no ledger row carries the event id, and two completed invocations of a
\* lifetime purchase for a new user leave the grant once or twice, twice only if
\* both passed the check, with one ledger row either way; that the double grant
\* is among the outcomes is C27_Witness.
C27_DoubleGrantOnlyByRace ==
  /\ [][\A c \in {1, 2} :
          PassesCheck(c) =>
            \A r \in Rows(ledger) : r.stripe_event_id # calls[c].event.id]_vars
  /\ [](SameDelivery /\ BothDone(1, 2) /\ CallSession(1).payment_type = "lifetime_purchase" =>
          LET g == SessionGrant(CallSession(1))
              total == users[calls[1].email].total_credits
          IN /\ total \in {g, 2 * g}
             /\ total = 2 * g => calls[1].passed /\ calls[2].passed
             /\ Len(ledger) = 1)

\* cs_d19 delivered twice at once: both passed the check, 98 credits, one row
C27_Witness ==
  /\ SameDelivery
  /\ BothDone(1, 2)
  /\ CallSession(1).id = "cs_d19"
  /\ calls[1].passed /\ calls[2].passed
  /\ users[EmailA].total_credits = 2 * 49
  /\ Len(ledger) = 1
  /\ ledger[1].delta = 49

\* C25: in handleSuccessfulPayment for a credit-granting payment the ledger row
\* of the session is inserted before total_credits or total_spent is changed, so
\* in every intermediate state (a stop after any single store call included)
\* every increase of total_credits caused by a session is matched by a ledger
\* row of that session: the ledger may be ahead of the balance, never the
\* balance ahead of the ledger.
C25_LedgerFirst ==
  \A e \in Emails :
    /\ users[e].total_credits <= SumDelta(RowsOfEmail(ledger, e))
    /\ users[e].total_spent > 0 => \E r \in Rows(ledger) : r.email = e

(* ======================================================================= *)
(* Claims about deliveries with failing store calls, checked under SpecFault. *)
(* ======================================================================= *)

\* request c is the only one that has arrived, and its ledger insert failed
C26_LedgerInsertFailed(c) ==
  /\ calls[c].kind = "handleWebhook"
  /\ calls[c].pc = "done"
  /\ calls[c].result = Fail("ledger insert failed")
  /\ \A d \in CallIds \ {c} : calls[d].kind = "none"

\* C26: if the credits_ledger insert in handleSuccessfulPayment fails, the
\* operation is a no-op: total_credits, total_spent, membership and access fields
\* equal their values before the call (here: no row, or the fields of a new row).
C26_FailedInsertIsNoOp ==
  \A c \in {1, 2} :
    C26_LedgerInsertFailed(c) =>
      LET row == users[calls[c].email]
      IN /\ row.total_credits = 0
         /\ row.total_spent = 0
         /\ row.membership_tier = NoTier
         /\ row.access_mode = "none"
         /\ ~ row.crowbar_access

\* the store changes in this step
StoreWrite == users' # users \/ ledger' # ledger \/ credits' # credits

\* the request that takes this step
Stepping(c) == calls'[c] # calls[c]

Verified(c) == calls[c].signature = <<"whsec_endpoint", calls[c].event.id>>

\* C21: for every verified webhook event the HTTP acknowledgement is sent before
\* any ledger or user write caused by the event, and it is the same whether
\* reconciliation later succeeds, fails or finds the event already processed; a
\* reconciliation error is swallowed and never produces a second response or an
\* unhandled rejection.
C21_AcknowledgedFirst ==
  /\ [][\A c \in CallIds :
          (StoreWrite /\ Stepping(c)) =>
            calls[c].responses = <<200>> /\ calls'[c].responses = <<200>>]_vars
  /\ [](\A c \in CallIds :
          calls[c].kind = "handleWebhook" =>
            /\ Verified(c) => calls[c].responses = <<200>>
            /\ Len(calls[c].responses) = 1
            /\ ~ calls[c].rejected)

\* one delivery failed at its ledger insert after the users row was written, the
\* other found no ledger row and granted again: both were acknowledged alike
C21_Witness ==
  /\ BothDone(1, 2)
  /\ calls[1].event = calls[2].event
  /\ CallSession(1).id = "cs_d19"
  /\ Verified(1) /\ Verified(2)
  /\ calls[1].result = Fail("ledger insert failed")
  /\ calls[2].result = Result(TRUE, FALSE, "none")
  /\ calls[1].responses = calls[2].responses
  /\ Len(ledger) = 1

(* ======================================================================= *)
(* Claims about zero-delta reconciliation, checked under SpecPay.           *)
(* ======================================================================= *)

\* a valid balance_upgrade for a limited user who already holds 49 credits or
\* more: the delta the handler computes is max(49 - total_credits, 0) = 0
C29_ZeroDelta ==
  /\ PaymentStep
  /\ FreshEvent
  /\ last'.session.payment_type = "balance_upgrade"
  /\ StepEmail \in Emails
  /\ users[StepEmail].exists
  /\ users[StepEmail].access_mode = "limited"
  /\ users[StepEmail].limited_paid_amount < 49
  /\ last'.session.amount_total = (49 - users[StepEmail].limited_paid_amount) * 100
  /\ users[StepEmail].total_credits >= 49

\* C29: whenever reconciliation computes a credits delta <= 0 for a mode other
\* than limited_pass, the operation is skipped entirely: no credits_ledger row
\* is inserted and no users field is changed.
C29_ZeroDeltaSkipped ==
  [][C29_ZeroDelta => ledger' = ledger /\ users' = users]_vars

(* ======================================================================= *)
(* Claims about the auto-upgrade after a payment, checked under SpecPay.    *)
(* ======================================================================= *)

\* a webhook payment that raises total_spent to 99 dollars or more for a user
\* with no auto_upgrade_bonus row
C30_SpendBump ==
  /\ PaymentStep
  /\ StepEmail \in Emails
  /\ users'[StepEmail].total_spent > users[StepEmail].total_spent
  /\ users'[StepEmail].total_spent >= 9900
  /\ BonusRows(ledger, StepEmail) = {}

\* C30: the auto-upgrade rule is evaluated after every operation that increases
\* total_spent (webhook payment, gate access-pass award, bridge sync-checkout):
\* if the effective spend is then >= 99 and no auto_upgrade_bonus row exists,
\* the same operation grants the +49 bonus and leaves full_access true.
C30_AutoUpgradeAfterSpend ==
  [][C30_SpendBump =>
       /\ Cardinality(BonusRows(ledger', StepEmail)) = 1
       /\ users'[StepEmail].full_access]_vars

(* ======================================================================= *)
(* Claims about the key of a users row, checked under SpecTyped.            *)
(* ======================================================================= *)

\* C23: in every reachable state each users row is keyed by a trimmed,
\* lower-cased email, so requests whose emails differ only in letter case or
\* surrounding whitespace (webhook, credits earn/spend, gate start/complete,
\* bridge) read and mutate the same row and never create a second one.
C23_NormalisedKeys ==
  \A k \in UserKeys : users[k].exists => k = NormEmail(k)

(* ======================================================================= *)
(* Claims about repeated sync-checkout requests, checked under SpecSync.    *)
(* ======================================================================= *)

\* a sync-checkout request that was not refused for its arguments
SyncAccepted(r) ==
  r.op = "syncCheckout" /\ r.result.success

\* the request just answered is the one before it sent again, body for body,
\* and names a session id or, without one, an idempotency key
C22_Repeat ==
  /\ SyncAccepted(last)
  /\ SyncAccepted(last')
  /\ ops' = ops + 1
  /\ last'.email = last.email
  /\ last'.arg = last.arg
  /\ last.arg.session_id # NoSession \/ last.arg.key # "none"

\* C22: a syncCheckout request repeated with the same stripe_session_id (or, with
\* no session id, the same idempotency_key) adds, after the first completed
\* request, no credits_ledger row and leaves the user's total_credits and
\* total_spent unchanged, whatever credits_delta, amount_cents and unlock are.
C22_RepeatIsNoOp ==
  [][C22_Repeat =>
       /\ ledger' = ledger
       /\ users'[last'.email].total_credits = users[last'.email].total_credits
       /\ users'[last'.email].total_spent = users[last'.email].total_spent]_vars

(* ======================================================================= *)
(* Claims about the webhook endpoint, checked under SpecWebhook.            *)
(* ======================================================================= *)

WebhookStep == last'.op = "handleWebhook" /\ ops' = ops + 1

\* C20: when signature verification of an incoming webhook fails, handleWebhook
\* answers with a 4xx error and the event is never processed: no users, credits
\* or ledger row is written.
C20_BadSignatureRejected ==
  [][(WebhookStep /\ last'.arg.signature # <<"whsec_endpoint", last'.event>>) =>
       /\ last'.http \in 400..499
       /\ ~ last'.result.success
       /\ NoWrite
       /\ referrals' = referrals]_vars

\* a paid session's event signed with another secret, after a verified delivery
\* of another event was processed
C20_Witness ==
  /\ last.op = "handleWebhook"
  /\ last.http = 400
  /\ last.session.id = "cs_pro"
  /\ last.arg.signature = <<"whsec_other", <<"cs_pro", 1>>>>
  /\ Len(ledger) = 1
  /\ ledger[1].stripe_session_id = "cs_d19"
  /\ ~ users[EmailB].exists

(* ======================================================================= *)
(* Claims about the backfill branch of autoUpgradeIfEligible, checked under *)
(* SpecBackfill.                                                            *)
(* ======================================================================= *)

\* a sync-checkout whose every store call was taken, run for a user the store
\* holds with full_access and no auto_upgraded_at
C31_BackfillStep ==
  /\ SyncStep
  /\ last'.arg.updated
  /\ users[last'.email].full_access
  /\ ~ users[last'.email].auto_upgraded_at

\* C31: for every user with full_access and no auto_upgraded_at, a
\* run of autoUpgradeIfEligible ends with auto_upgraded_at set, and leaves
\* total_credits and the auto_upgrade_bonus rows alone when such a row exists.
C31_BackfillRepairs ==
  [][C31_BackfillStep =>
       LET e == last'.email
       IN /\ users'[e].auto_upgraded_at
          /\ BonusRows(ledger, e) # {} =>
               /\ BonusRows(ledger', e) = BonusRows(ledger, e)
               /\ users'[e].total_credits = CreditsBefore(e) + last'.arg.amount]_vars

(* ======================================================================= *)
(* Claims about referral codes with purchases in flight together, checked   *)
(* under SpecCodes.                                                         *)
(* ======================================================================= *)

CodeOf(e) == users[e].referral_code

\* a call takes a step of ensureReferralCodeForUser
CodeStep(c) == calls[c].pc \in {"referral", "rc.check", "rc.update"} /\ Stepping(c)

\* C32: no two users rows hold the same referral_code, also when calls for
\* different users generate the same candidate (the store refuses one of the
\* updates); a call that finds the user's code returns without a write, and an
\* assigned code is only ever replaced by a call that read the row before the
\* code was set.
C32_UniqueStableCodes ==
  /\ [](\A e1, e2 \in UserKeys :
          (e1 # e2 /\ CodeOf(e1) # NoCode) => CodeOf(e1) # CodeOf(e2))
  /\ [][\A c \in CallIds :
          (CodeStep(c) /\ calls[c].pc = "referral" /\ CodeOf(calls[c].email) # NoCode) =>
            /\ calls'[c].pc = "done"
            /\ calls'[c].code = NoCode
            /\ users' = users]_vars
  /\ [][\A e \in UserKeys :
          (CodeOf(e) # NoCode /\ users'[e].referral_code # CodeOf(e)) =>
            \E c \in CallIds :
              /\ CodeStep(c)
              /\ calls[c].pc = "rc.update"
              /\ calls[c].email = e
              /\ calls[c].row.referral_code = NoCode]_vars

\* a@x and b@x generated the same candidate and the store refused b@x's update;
\* a later purchase of a@x found the code and generated none
C32_Witness ==
  /\ \A c \in {1, 2, 3} : calls[c].pc = "done"
  /\ CodeOf(EmailA) = "CWB-AAAAAA"
  /\ calls[1].code = "CWB-AAAAAA"
  /\ calls[2].code = "CWB-AAAAAA"
  /\ CodeOf(EmailB) = NoCode
  /\ calls[3].row.referral_code = "CWB-AAAAAA"
  /\ calls[3].code = NoCode

(* ======================================================================= *)
(* Claims about the origins of the daily reward, checked under SpecReward.  *)
(* ======================================================================= *)

\* C33: every 'action.rewarded' ledger row carries one of the partner keys as
\* its origin and that partner's fixed amount (7, 3, 7) as its delta, whichever
\* gate request wrote it.
C33_PartnerRewardOnly ==
  \A r \in Rows(ledger) :
    r.reason = <<"action.rewarded">> =>
      /\ r.origin_site \in Partners
      /\ r.delta = PartnerCredit(r.origin_site)

(* ======================================================================= *)
(* Claims about entitlements over a sequence of payments, checked under     *)
(* SpecPay.                                                                 *)
(* ======================================================================= *)

\* a payment processed to success, not answered as already processed
ProcessedPayment ==
  /\ PaymentStep
  /\ last'.result.success
  /\ ~ last'.result.alreadyProcessed

\* C34: no successfully processed payment takes an entitlement away: lifetime
\* access_mode stays lifetime, full_access stays true, and every partner access
\* flag that was true stays true.
C34_NoDowngrade ==
  [][ProcessedPayment =>
       \A e \in UserKeys :
         /\ users[e].access_mode = "lifetime" => users'[e].access_mode = "lifetime"
         /\ users[e].full_access => users'[e].full_access
         /\ users[e].access \subseteq users'[e].access]_vars

(* ======================================================================= *)
(* Claims about the balance under spends, checked under SpecCredits.        *)
(* ======================================================================= *)

\* C35: total_credits is never negative; a spend of more than the user holds
\* (a user without a row holds nothing) is refused and changes neither the
\* users row nor the ledger.
C35_NoOverdraft ==
  /\ [](\A e \in UserKeys : users[e].total_credits >= 0)
  /\ [][(SpendStep /\ Abs(last'.arg.amount) > CreditsBefore(last'.email)) =>
          /\ ~ last'.result.success
          /\ users' = users
          /\ ledger' = ledger]_vars

(* ======================================================================= *)
(* Claims about the balance upgrade from quote to webhook, checked under    *)
(* SpecUpgrade.                                                             *)
(* ======================================================================= *)

\* the first delivery of a balance_upgrade session that createCheckoutSession
\* quoted and the customer paid in full
C36_QuotedUpgradePaid ==
  /\ PaymentStep
  /\ FreshEvent
  /\ last'.session.id \in GateSessionIds
  /\ last'.session = stripe[last'.session.id]
  /\ last'.session.payment_type = "balance_upgrade"
  /\ last'.session.payment_status = "paid"

\* C36: processing the webhook of a paid balance_upgrade session leaves the user
\* with lifetime access, whatever was processed for the user since the session
\* was created.
C36_PaidUpgradeIsApplied ==
  [][C36_QuotedUpgradePaid => users'[last'.email].access_mode = "lifetime"]_vars

(* ======================================================================= *)
(* Claims about the pass holder after reconciliation, checked under         *)
(* SpecGate.                                                                *)
(* ======================================================================= *)

\* the ledger holds the grant of the session, written by the webhook (a row with
\* the event id) or by completeGate (reason checkout.session.completed)
ReconciledBy(L, s) ==
  \E r \in Rows(L) :
    /\ r.stripe_session_id = s.id
    /\ r.delta >= 1
    /\ r.stripe_event_id # NoEvent \/ r.reason = <<"checkout.session.completed">>

\* the email has an access-pass session of startGate that was paid and reconciled
PaidAndReconciled(e) ==
  \E id \in GateSessionIds :
    /\ stripe[id].product_type = "access_pass"
    /\ GateSessionEmail(stripe[id]) = e
    /\ stripe[id].payment_status = "paid"
    /\ ReconciledBy(ledger, stripe[id])

\* C37: once an access-pass session of the email is paid and reconciled, by the
\* webhook, by completeGate or by both, every startGate for the email answers
\* need_payment = false with the partner's URL and creates no checkout session.
C37_ReconciledIsPassHolder ==
  [][(StartStep /\ PaidAndReconciled(last'.email)) =>
       /\ last'.result = Result(TRUE, FALSE, "redirect")
       /\ last'.redirect_url = PartnerMap(last'.arg.origin)
       /\ stripe' = stripe]_vars

(* Claims about the daily partner reward under concurrency, checked under *)
(* SpecGateRace                                                           *)

\* the 'action.rewarded' ledger rows of one email, partner and UTC day
PartnerRewardRows(e, origin, day) ==
  {i \in DOMAIN ledger :
     /\ ledger[i].email = e
     /\ ledger[i].origin_site = origin
     /\ ledger[i].reason = <<"action.rewarded">>
     /\ ledger[i].created_at = day}

\* what one reward a day for each partner, on top of the access-pass credits of
\* the sessions completed, can add up to
OncePerDayCredits(e) ==
  LET passes == {i \in DOMAIN ledger :
                   ledger[i].email = e /\ ledger[i].reason = <<"checkout.session.completed">>}
      rewarded == {<<o, d>> \in Partners \X Days : PartnerRewardRows(e, o, d) # {}}
      RECURSIVE Total(_)
      Total(S) == IF S = {} THEN 0
                  ELSE LET x == CHOOSE x \in S : TRUE
                       IN CreditMap(x[1]) + Total(S \ {x})
  IN CreditMap("access_pass") * Cardinality(passes) + Total(rewarded)

\* C38: with gate requests of one pass holder in flight together, there is at
\* most one 'action.rewarded' ledger row per email, partner and UTC day, and
\* total_credits holds at most one partner amount per partner and day
C38_OneRewardPerDay ==
  \A e \in Emails :
    /\ \A o \in Partners, d \in Days : Cardinality(PartnerRewardRows(e, o, d)) <= 1
    /\ users[e].total_credits <= OncePerDayCredits(e)

(* Claims about a processed balance upgrade delivered again, checked under *)
(* SpecPay                                                                *)

\* the newest ledger row of the session's user is the row this session's
\* processing wrote: the session was processed to success and no payment of
\* that user was processed since
UpgradeProcessedLast(s) ==
  LET mine == {i \in DOMAIN ledger : ledger[i].email = SessionEmail(s)}
  IN \E i \in mine : ledger[i].stripe_session_id = s.id /\ \A j \in mine : j <= i

UpgradeRedelivery ==
  /\ PaymentStep
  /\ PaymentTypeOf(last'.session) = "balance_upgrade"
  /\ UpgradeProcessedLast(last'.session)

\* C39: a balance_upgrade session that was processed to success and is delivered
\* again, under the same or another event id and with no other payment of that
\* user in between, writes nothing: under the event id already in the ledger the
\* run answers already processed, under another one it ends on the user no longer
\* being in limited mode; users, ledger and credits stay as they were.
C39_UpgradeRedeliveryWritesNothing ==
  [][UpgradeRedelivery =>
       /\ NoWrite
       /\ users[last'.email].access_mode = "lifetime"
       /\ last'.result = IF ExistingLedgerRecord(ledger, last'.event)
                         THEN AlreadyProcessed
                         ELSE Fail("Balance upgrade allowed only for limited users")]_vars

\* bu_3500 was processed under its first event and has just been delivered under
\* its second one
C39_Witness ==
  /\ last.op = "handleSuccessfulPayment"
  /\ last.session = Bu3500
  /\ last.event = Evt(Bu3500, 2)
  /\ UpgradeProcessedLast(Bu3500)
  /\ \E i \in DOMAIN ledger : ledger[i].stripe_event_id = Evt(Bu3500, 1)
  /\ ~ last.result.success

(* Claims about the limited mode's running total, checked under SpecPasses *)

\* C40: in every reachable state a user in limited mode has paid more than 0
\* and less than the upgrade target of 49 in limited passes, so that a balance
\* upgrade for the remaining amount can be quoted
C40_LimitedBelowTarget ==
  \A e \in UserKeys :
    users[e].access_mode = "limited" =>
      /\ 0 < users[e].limited_paid_amount
      /\ users[e].limited_paid_amount < UpgradeTarget
      /\ ~ InvalidPaidTotal(users[e].limited_paid_amount)

====
